---- MODULE Spec2Model ----
(***************************************************************************)
(* Needle-tip tracking session of AINeedleTracking (3D Slicer module).     *)
(*                                                                         *)
(* The model covers AINeedleTrackingWidget.startTracking / stopTracking /  *)
(* initializeScans / receivedImagePlane0..2 / getNeedle and the parts of   *)
(* AINeedleTrackingLogic they drive: initializeTracking, getNeedle (steps  *)
(* 6 to 8: confidence, segmented tip, tracked tip), smoothTip with the EMA *)
(* and the Kalman filter, initializeScanPlane and updateScanPlane.         *)
(*                                                                         *)
(* Numbers.  Coordinates, filter states and covariances are floats in the  *)
(* source.  They are modelled as exact rationals <<n, d>> (d > 0, lowest   *)
(* terms), so equality in the model is equality of the real values.        *)
(*                                                                         *)
(* Axes.  A position is a triple <<LR, AP, IS>>; the source's index 0,1,2  *)
(* of a vtkMatrix4x4 translation column is index 1,2,3 here.               *)
(***************************************************************************)
EXTENDS Integers, Sequences, FiniteSets, TLC

(***************************************************************************)
(* Exact rational arithmetic                                               *)
(***************************************************************************)
RECURSIVE Gcd(_, _)
Gcd(a, b) == IF b = 0 THEN a ELSE Gcd(b, a % b)

IAbs(n) == IF n < 0 THEN -n ELSE n

\* <<n, d>> in lowest terms with a positive denominator (d # 0)
RNorm(n, d) ==
  IF d = 1
  THEN <<n, 1>>
  ELSE LET s == IF d < 0 THEN -1 ELSE 1
           g == Gcd(IAbs(n), IAbs(d))
       IN  <<(s * n) \div g, (s * d) \div g>>

R(n) == <<n, 1>>
RZero == <<0, 1>>
ROne == <<1, 1>>
RAdd(x, y) == RNorm(x[1] * y[2] + y[1] * x[2], x[2] * y[2])
RSub(x, y) == RNorm(x[1] * y[2] - y[1] * x[2], x[2] * y[2])
RMul(x, y) == RNorm(x[1] * y[1], x[2] * y[2])
RDiv(x, y) == RNorm(x[1] * y[2], x[2] * y[1])
RNeg(x) == <<-x[1], x[2]>>
RAbs(x) == <<IAbs(x[1]), x[2]>>
RGeq(x, y) == x[1] * y[2] >= y[1] * x[2]
RMax(x, y) == IF RGeq(x, y) THEN x ELSE y

Vec(a, b, c) == <<R(a), R(b), R(c)>>
Origin == Vec(0, 0, 0)

VAdd(u, v) == <<RAdd(u[1], v[1]), RAdd(u[2], v[2]), RAdd(u[3], v[3])>>
VScale(a, v) == <<RMul(a, v[1]), RMul(a, v[2]), RMul(a, v[3])>>
\* v with coordinate i replaced by x (SetElement(i-1, 3, x))
SetAxis(v, i, x) == [v EXCEPT ![i] = x]

(***************************************************************************)
(* Bounds of the model                                                     *)
(***************************************************************************)
\* image-space candidate points are <<3k-2, 3k-1, 3k>>, k in 1..NumPoints
NumPoints == 2
\* a receivedImagePlane callback is processed only while img_counter < MaxCycles
MaxCycles == 3
\* sessions (startTracking calls) per run
MaxSessions == 1
\* further sessions per run in the specification of repeated sessions
MaxRestarts == 1
\* manual plane sends (sendPlane0/1/2) per run
MaxSends == 1
MaxComponents == 3
MaskLen == 6
MaxEmaSteps == 4
MaxKfSteps == 3
\* slice thickness of the input images: with the image centre at the origin,
\* point 1 lies within half a slice of the centre on every axis and the
\* other points do not
ThickSlice == 7
\* the non-zero wall-clock step between two Kalman updates
DtStep == 2

(***************************************************************************)
(* Planes, axes and configuration values                                   *)
(***************************************************************************)
Planes == {"COR", "SAG", "AX"}
\* idx_map of initializeScans, shifted to 1-based indices
PlaneIdx(p) == CASE p = "COR" -> 1 [] p = "SAG" -> 2 [] p = "AX" -> 3
\* the axis a plane does not resolve: COR -> AP, SAG -> LR, AX -> IS
ThroughAxis(p) == CASE p = "COR" -> 2 [] p = "SAG" -> 1 [] p = "AX" -> 3
InPlaneAxes(p) == (1..3) \ {ThroughAxis(p)}
Others(p) == Planes \ {p}

\* Python's None as the value of an attribute
None == <<>>
\* the confidence getNeedle returns when it returns None
NoneConf == 0
\* the values of the confidence combo box, currentIndex + 1
ConfidenceLevels == 1..5
\* widget defaults of the minimum tip and shaft sizes
minTipSize == 10
minShaftSize == 5
\* slider values: EMA alpha (default 0.50), Kalman q (a value of its range
\* 0.001..0.5), Kalman r (default 1.0)
emaAlpha == <<1, 2>>
kf_q == <<1, 4>>
kf_r == <<1, 1>>

COR_ROT == <<<<1, 0, 0>>, <<0, 0, -1>>, <<0, 1, 0>>>>
SAG_ROT == <<<<0, 0, 1>>, <<0, 1, 0>>, <<-1, 0, 0>>>>
AX_ROT == <<<<1, 0, 0>>, <<0, 1, 0>>, <<0, 0, 1>>>>
IDENTITY_ROT == <<<<1, 0, 0>>, <<0, 1, 0>>, <<0, 0, 1>>>>

(***************************************************************************)
(* Inputs of one cycle                                                     *)
(***************************************************************************)
Points == {Vec(3 * k - 2, 3 * k - 1, 3 * k) : k \in 1..NumPoints}
TipSizes == {minTipSize - 1, minTipSize}
ShaftSizes == {minShaftSize - 1, minShaftSize}

\* What steps 3 to 5 of getNeedle hand to step 6: the selected tip and shaft
\* (tip = FALSE: tip_label is None, shaft = FALSE: shaft_label is None),
\* their sizes, the adjacency verdict, the tip centroid and the shaft
\* skeleton extremity, both in image (LPS) coordinates.
NoDetection ==
  [tip |-> FALSE, shaft |-> FALSE, tip_size |-> 0, shaft_size |-> 0,
   connected |-> FALSE, tip_center |-> Origin, shaft_tip |-> Origin]
Detections ==
  {NoDetection}
  \cup {[tip |-> FALSE, shaft |-> TRUE, tip_size |-> 0, shaft_size |-> ss,
         connected |-> FALSE, tip_center |-> Origin, shaft_tip |-> e] :
          ss \in ShaftSizes, e \in Points}
  \cup {[tip |-> TRUE, shaft |-> FALSE, tip_size |-> ts, shaft_size |-> 0,
         connected |-> FALSE, tip_center |-> c, shaft_tip |-> Origin] :
          ts \in TipSizes, c \in Points}
  \cup {d \in [tip : {TRUE}, shaft : {TRUE}, tip_size : TipSizes,
                 shaft_size : ShaftSizes, connected : BOOLEAN,
                 tip_center : Points, shaft_tip : Points] :
          d.tip_center # d.shaft_tip}

\* The input image sitk_img_m as step 8 reads it: getSitkCenterCoordinates
\* (physical centre) and GetSpacing()[2] (slice thickness).
Images == {[center |-> Origin, thickness |-> R(ThickSlice)]}

\* time.time() as read by smoothTip, given the previous update's timestamp
Nows(last) == IF last = None THEN {R(0)} ELSE {RAdd(last[1], R(d)) : d \in {0, DtStep}}

(***************************************************************************)
(* AINeedleTrackingLogic.separateComponents                                *)
(*                                                                         *)
(* A mask is one row of MaskLen voxels, 1 for foreground.  Connectivity is *)
(* along the row, so a component is a maximal run of foreground voxels.    *)
(***************************************************************************)
\* sitk.ConnectedComponent: the label image, 0 for background, the
\* components numbered 1, 2, ... in scan order
ConnectedComponent(mask) ==
  [i \in 1..Len(mask) |->
     IF mask[i] = 0 THEN 0
     ELSE Cardinality({j \in 1..i : mask[j] = 1 /\ (j = 1 \/ mask[j - 1] = 0)})]

\* stats.GetLabels(): the labels present, ascending
GetLabels(components) ==
  LET present == {components[i] : i \in 1..Len(components)} \ {0}
  IN  [k \in 1..Cardinality(present) |-> k]

\* stats.GetNumberOfPixels(l) and stats.GetCentroid(l)
GetNumberOfPixels(components, l) ==
  Cardinality({i \in 1..Len(components) : components[i] = l})
GetCentroid(components, l) ==
  LET voxels == {i \in 1..Len(components) : components[i] = l}
      lo == CHOOSE i \in voxels : \A j \in voxels : i <= j
  IN  RDiv(R(2 * lo + Cardinality(voxels) - 1), R(2))

\* entries of equal size in the reverse of their order in the list
sortedBySize_reversed(dict) ==
  LET before(i, j) == dict[i].size > dict[j].size
                        \/ (dict[i].size = dict[j].size /\ i > j)
      rank(i) == 1 + Cardinality({j \in 1..Len(dict) : before(j, i)})
  IN  [k \in 1..Len(dict) |-> dict[CHOOSE i \in 1..Len(dict) : rank(i) = k]]

\* sorted(dict_components, key=lambda x: x['size'], reverse=True): Python's
\* sort is stable, also with reverse=True, so entries of equal size keep
\* their order in the list
sortedBySize(dict) ==
  LET before(i, j) == dict[i].size > dict[j].size
                        \/ (dict[i].size = dict[j].size /\ i < j)
      rank(i) == 1 + Cardinality({j \in 1..Len(dict) : before(j, i)})
  IN  [k \in 1..Len(dict) |-> dict[CHOOSE i \in 1..Len(dict) : rank(i) = k]]

\* the second element of the returned tuple: None for a mask whose sum is
\* not positive, else the sorted list of records
separateComponents(mask) ==
  IF \A i \in 1..Len(mask) : mask[i] = 0
  THEN None
  ELSE LET components == ConnectedComponent(mask)
           labels == GetLabels(components)
       IN  sortedBySize([k \in 1..Len(labels) |->
                           [label |-> labels[k],
                            size |-> GetNumberOfPixels(components, labels[k]),
                            centroid |-> GetCentroid(components, labels[k])]])

(***************************************************************************)
(* AINeedleTrackingLogic.getNeedle, step 5: select tip/shaft labels        *)
(*                                                                         *)
(* tip_dict and shaft_dict are the lists separateComponents returns, one   *)
(* record [label, size, centroid] per component, largest first (the empty  *)
(* sequence where it returns None); adjacent is the set of pairs           *)
(* <<tip label, shaft label>> for which checkIfAdjacent answers True.      *)
(***************************************************************************)
\* "tip_label = None" etc.: no label selected (component labels start at 1)
NoLabel == 0

\* the second component kept whatever its size
secondLabel_noMinimum(dict, minSize) ==
  IF Len(dict) > 1 THEN dict[2].label ELSE NoLabel

\* "Is 2nd largest a candidate?": tip_label2 / shaft_label2
secondLabel(dict, minSize) ==
  IF Len(dict) > 1 /\ dict[2].size >= minSize THEN dict[2].label ELSE NoLabel

\* the search trying the second tip before the second shaft
fallbackSearch_tipFirst(tip_label, tip_label2, shaft_label, shaft_label2, adjacent) ==
  LET T1S1 == <<tip_label, shaft_label>>
      T1S2 == <<tip_label, shaft_label2>>
      T2S1 == <<tip_label2, shaft_label>>
      T2S2 == <<tip_label2, shaft_label2>>
      sel(pair, connected, tested) ==
        [tip_label |-> pair[1], shaft_label |-> pair[2], connected |-> connected,
         tested |-> tested]
  IN  IF tip_label = NoLabel \/ shaft_label = NoLabel
      THEN sel(T1S1, FALSE, <<>>)
      ELSE IF T1S1 \in adjacent
      THEN sel(T1S1, TRUE, <<T1S1>>)
      ELSE IF tip_label2 # NoLabel
      THEN IF T2S1 \in adjacent
           THEN sel(T2S1, TRUE, <<T1S1, T2S1>>)
           ELSE IF shaft_label2 # NoLabel
           THEN IF T1S2 \in adjacent
                THEN sel(T1S2, TRUE, <<T1S1, T2S1, T1S2>>)
                ELSE IF T2S2 \in adjacent
                THEN sel(T2S2, TRUE, <<T1S1, T2S1, T1S2, T2S2>>)
                ELSE sel(T1S1, FALSE, <<T1S1, T2S1, T1S2, T2S2>>)
           ELSE sel(T1S1, FALSE, <<T1S1, T2S1>>)
      ELSE IF shaft_label2 # NoLabel
      THEN IF T1S2 \in adjacent
           THEN sel(T1S2, TRUE, <<T1S1, T1S2>>)
           ELSE sel(T1S1, FALSE, <<T1S1, T1S2>>)
      ELSE sel(T1S1, FALSE, <<T1S1>>)

\* "Check tip and shaft connection": the nested conditionals, with the
\* labels selected, the verdict, and the calls of checkIfAdjacent in order
fallbackSearch(tip_label, tip_label2, shaft_label, shaft_label2, adjacent) ==
  LET T1S1 == <<tip_label, shaft_label>>
      T1S2 == <<tip_label, shaft_label2>>
      T2S1 == <<tip_label2, shaft_label>>
      T2S2 == <<tip_label2, shaft_label2>>
      sel(pair, connected, tested) ==
        [tip_label |-> pair[1], shaft_label |-> pair[2], connected |-> connected,
         tested |-> tested]
  IN  IF tip_label = NoLabel \/ shaft_label = NoLabel
      THEN sel(T1S1, FALSE, <<>>)
      ELSE IF T1S1 \in adjacent
      THEN sel(T1S1, TRUE, <<T1S1>>)
      ELSE IF shaft_label2 # NoLabel
      THEN IF T1S2 \in adjacent
           THEN sel(T1S2, TRUE, <<T1S1, T1S2>>)
           ELSE IF tip_label2 # NoLabel
           THEN IF T2S1 \in adjacent
                THEN sel(T2S1, TRUE, <<T1S1, T1S2, T2S1>>)
                ELSE IF T2S2 \in adjacent
                THEN sel(T2S2, TRUE, <<T1S1, T1S2, T2S1, T2S2>>)
                ELSE sel(T1S1, FALSE, <<T1S1, T1S2, T2S1, T2S2>>)
           ELSE sel(T1S1, FALSE, <<T1S1, T1S2>>)
      ELSE IF tip_label2 # NoLabel
      THEN IF T2S1 \in adjacent
           THEN sel(T2S1, TRUE, <<T1S1, T2S1>>)
           ELSE sel(T1S1, FALSE, <<T1S1, T2S1>>)
      ELSE sel(T1S1, FALSE, <<T1S1>>)

\* the record of a list that carries the label
component(dict, label) == CHOOSE c \in {dict[i] : i \in 1..Len(dict)} : c.label = label

\* step 5 as a whole: the largest components, the retained second ones, the
\* search, and the size and centroid that go with the selected labels
selectLabels(tip_dict, shaft_dict, adjacent, minTip, minShaft) ==
  LET found == fallbackSearch(IF tip_dict # <<>> THEN tip_dict[1].label ELSE NoLabel,
                              secondLabel(tip_dict, minTip),
                              IF shaft_dict # <<>> THEN shaft_dict[1].label ELSE NoLabel,
                              secondLabel(shaft_dict, minShaft),
                              adjacent)
  IN  [tip_label |-> found.tip_label,
       shaft_label |-> found.shaft_label,
       connected |-> found.connected,
       tested |-> found.tested,
       tip_size |-> IF found.tip_label # NoLabel
                    THEN component(tip_dict, found.tip_label).size ELSE 0,
       tip_center |-> IF found.tip_label # NoLabel
                      THEN component(tip_dict, found.tip_label).centroid ELSE Origin,
       shaft_size |-> IF found.shaft_label # NoLabel
                      THEN component(shaft_dict, found.shaft_label).size ELSE 0]

(***************************************************************************)
(* AINeedleTrackingLogic.getNeedle, step 6: confidence and point           *)
(***************************************************************************)
\* the decision tree without its None leaf: an empty frame is rated Low
getConfidence_neverNone(det, minTip, minShaft) ==
  [confidence |-> IF det.tip /\ det.tip_size >= minTip THEN 3
                  ELSE IF det.shaft /\ det.shaft_size >= minShaft THEN 2
                  ELSE 1,
   tip_center |-> IF det.tip THEN det.tip_center ELSE det.shaft_tip]

\* the disconnected branch always keeping the tip centroid
getConfidence_centroidOnly(det, minTip, minShaft) ==
  IF ~det.tip
  THEN IF ~det.shaft
       THEN [confidence |-> NoneConf, tip_center |-> det.tip_center]
       ELSE [confidence |-> IF det.shaft_size >= minShaft THEN 2 ELSE 1,
             tip_center |-> det.shaft_tip]
  ELSE [confidence |-> IF ~det.shaft
                       THEN IF det.tip_size >= minTip THEN 3 ELSE 1
                       ELSE IF det.connected
                            THEN IF det.tip_size >= minTip THEN 5
                                 ELSE IF det.shaft_size >= minShaft THEN 4 ELSE 3
                            ELSE IF det.tip_size >= minTip THEN 3
                                 ELSE IF det.shaft_size >= minShaft THEN 2 ELSE 1,
        tip_center |-> det.tip_center]

\* the connected branch testing the shaft size before the tip size
getConfidence_shaftFirst(det, minTip, minShaft) ==
  IF ~det.tip
  THEN IF ~det.shaft
       THEN [confidence |-> NoneConf, tip_center |-> det.tip_center]
       ELSE [confidence |-> IF det.shaft_size >= minShaft THEN 2 ELSE 1,
             tip_center |-> det.shaft_tip]
  ELSE IF ~det.shaft
       THEN [confidence |-> IF det.tip_size >= minTip THEN 3 ELSE 1,
             tip_center |-> det.tip_center]
       ELSE IF det.connected
            THEN [confidence |-> IF det.shaft_size >= minShaft /\ det.tip_size < minTip THEN 4
                                 ELSE 3,
                  tip_center |-> det.tip_center]
            ELSE IF det.tip_size >= minTip
                 THEN [confidence |-> 3, tip_center |-> det.tip_center]
                 ELSE IF det.shaft_size >= minShaft
                      THEN [confidence |-> 2, tip_center |-> det.shaft_tip]
                      ELSE [confidence |-> 1, tip_center |-> det.tip_center]

\* the shaft extremity also taken for a big tip that is not connected
getConfidence_shaftAtMedium(det, minTip, minShaft) ==
  IF ~det.tip
  THEN IF ~det.shaft
       THEN [confidence |-> NoneConf, tip_center |-> det.tip_center]
       ELSE [confidence |-> IF det.shaft_size >= minShaft THEN 2 ELSE 1,
             tip_center |-> det.shaft_tip]
  ELSE IF ~det.shaft
       THEN [confidence |-> IF det.tip_size >= minTip THEN 3 ELSE 1,
             tip_center |-> det.tip_center]
       ELSE IF det.connected
            THEN [confidence |-> IF det.tip_size >= minTip THEN 5
                                 ELSE IF det.shaft_size >= minShaft THEN 4
                                 ELSE 3,
                  tip_center |-> det.tip_center]
            ELSE IF det.tip_size >= minTip
                 THEN [confidence |-> 3, tip_center |-> det.shaft_tip]
                 ELSE IF det.shaft_size >= minShaft
                      THEN [confidence |-> 2, tip_center |-> det.shaft_tip]
                      ELSE [confidence |-> 1, tip_center |-> det.tip_center]

\* confidence: NoneConf when the method returns None, else 1..5;
\* tip_center: the point step 7 converts (the centroid, or shaft_tip)
getConfidence(det, minTip, minShaft) ==
  IF ~det.tip
  THEN IF ~det.shaft
       THEN [confidence |-> NoneConf, tip_center |-> det.tip_center]
       ELSE [confidence |-> IF det.shaft_size >= minShaft THEN 2 ELSE 1,
             tip_center |-> det.shaft_tip]
  ELSE IF ~det.shaft
       THEN [confidence |-> IF det.tip_size >= minTip THEN 3 ELSE 1,
             tip_center |-> det.tip_center]
       ELSE IF det.connected
            THEN [confidence |-> IF det.tip_size >= minTip THEN 5
                                 ELSE IF det.shaft_size >= minShaft THEN 4
                                 ELSE 3,
                  tip_center |-> det.tip_center]
            ELSE IF det.tip_size >= minTip
                 THEN [confidence |-> 3, tip_center |-> det.tip_center]
                 ELSE IF det.shaft_size >= minShaft
                      THEN [confidence |-> 2, tip_center |-> det.shaft_tip]
                      ELSE [confidence |-> 1, tip_center |-> det.tip_center]

\* the point taken over without a change of sign
ToRAS_unchanged(c) == c

\* step 7: centerRAS = [-tip_center[0], -tip_center[1], tip_center[2]]
ToRAS(c) == <<RNeg(c[1]), RNeg(c[2]), c[3]>>

(***************************************************************************)
(* AINeedleTrackingLogic.getNeedle, step 8: fusion into the tracked tip    *)
(***************************************************************************)
\* the other planes' flags ignored
NoTipInOtherPlanes_always(prev, plane) == TRUE

\* "not (self.prevDetection[j] is True or self.prevDetection[k] is True)"
NoTipInOtherPlanes(prev, plane) ==
  ~(\E o \in Others(plane) : prev[PlaneIdx(o)] = "True")

\* the distance to the image centre ignored
SliceChanged_always(img, centerRAS, a) == TRUE

\* "abs(center[a] - centerRAS[a]) >= 0.5*slice_thickness"
SliceChanged(img, centerRAS, a) ==
  RGeq(RAbs(RSub(img.center[a], centerRAS[a])), RMul(<<1, 2>>, img.thickness))

\* the whole candidate written by the first plane to report, nothing after
FuseTip_firstOnly(plane, tracked, prev, centerRAS, img) ==
  IF \A i \in 1..3 : prev[i] # "True" THEN centerRAS ELSE tracked

\* trackTipMatrix after the plane branch: the translation read from
\* tipTrackedNode with the two in-plane elements set, and the through-plane
\* element set only under the two nested conditions
FuseTip(plane, tracked, prev, centerRAS, img) ==
  LET a == ThroughAxis(plane)
      inplane == [i \in 1..3 |-> IF i = a THEN tracked[i] ELSE centerRAS[i]]
  IN  IF NoTipInOtherPlanes(prev, plane) /\ SliceChanged(img, centerRAS, a)
      THEN centerRAS
      ELSE <<inplane[1], inplane[2], inplane[3]>>

\* the flag of the reporting plane set and the flags of the other used planes cleared
MarkDetection_exclusive(prev, plane) ==
  [i \in 1..3 |-> IF i = PlaneIdx(plane) THEN "True"
                  ELSE IF prev[i] = "None" THEN "None" ELSE "False"]

\* "self.prevDetection[i] = True"
MarkDetection(prev, plane) == [prev EXCEPT ![PlaneIdx(plane)] = "True"]

(***************************************************************************)
(* Smoothing: _apply_ema, _kf_init, _kf_mats, _kf_predict, _kf_update,     *)
(* _apply_kf, smoothTip                                                    *)
(*                                                                         *)
(* The smoothing state is the record                                       *)
(*   [emaPos, kf_initialized, kf_x, kf_P, last_update_ts].                 *)
(* kf_x is the 6-vector <<x, y, z, vx, vy, vz>>.  The source's 6x6         *)
(* matrices F, Q and the initial P couple element i only with element i+3, *)
(* H selects elements 0..2 and R is diagonal, so P keeps that block shape  *)
(* and S = H P H^T + R is diagonal.  kf_P therefore holds, for each axis   *)
(* i, the block <<P[i,i], P[i,i+3], P[i+3,i+3]>> (P is symmetric), and the *)
(* matrix products of the source are written out per block.                *)
(***************************************************************************)
\* the state started at the origin instead of at the first measurement
_apply_ema_fromZero(a, z, st) ==
  LET old == IF st.emaPos = None THEN Origin ELSE st.emaPos
      new == VAdd(VScale(a, z), VScale(RSub(ROne, a), old))
  IN  [out |-> new, st |-> [st EXCEPT !.emaPos = new]]

\* _apply_ema with a = float(self.emaAlpha)
_apply_ema_with(a, z, st) ==
  LET new == IF st.emaPos = None
             THEN z
             ELSE VAdd(VScale(a, z), VScale(RSub(ROne, a), st.emaPos))
  IN  [out |-> new, st |-> [st EXCEPT !.emaPos = new]]

\* the measurement passed through and stored, never blended
_apply_ema_passThrough(z, st) ==
  [out |-> z, st |-> [st EXCEPT !.emaPos = z]]

_apply_ema(z, st) == _apply_ema_with(emaAlpha, z, st)

\* the filter started with unit velocity on every axis
_kf_init_moving(z, st) ==
  [st EXCEPT !.kf_x = <<z[1], z[2], z[3], ROne, ROne, ROne>>,
             !.kf_P = [i \in 1..3 |-> <<R(10), RZero, R(10)>>],
             !.kf_initialized = TRUE]

_kf_init(z, st) ==
  [st EXCEPT !.kf_x = <<z[1], z[2], z[3], RZero, RZero, RZero>>,
             !.kf_P = [i \in 1..3 |-> <<R(10), RZero, R(10)>>],
             !.kf_initialized = TRUE]

\* the entries q11, q12, q22 of Q and the diagonal entry of R, for
\* q = float(self.kf_q) and r = float(self.kf_r)
_kf_mats_with(q, r, dt) ==
  [q11 |-> RMul(RDiv(RMul(RMul(dt, dt), RMul(dt, dt)), R(4)), q),
   q12 |-> RMul(RDiv(RMul(RMul(dt, dt), dt), R(2)), q),
   q22 |-> RMul(RMul(dt, dt), q),
   r |-> r]

_kf_mats(dt) == _kf_mats_with(kf_q, kf_r, dt)

\* x = F x ; P = F P F^T + Q
_kf_predict_with(q, r, dt, st) ==
  LET m == _kf_mats_with(q, r, dt)
      x == st.kf_x
      P == st.kf_P
      PredBlock(b) ==
        <<RAdd(RAdd(RAdd(b[1], RMul(R(2), RMul(dt, b[2]))),
                    RMul(RMul(dt, dt), b[3])), m.q11),
          RAdd(RAdd(b[2], RMul(dt, b[3])), m.q12),
          RAdd(b[3], m.q22)>>
  IN  [st EXCEPT !.kf_x = <<RAdd(x[1], RMul(dt, x[4])), RAdd(x[2], RMul(dt, x[5])),
                            RAdd(x[3], RMul(dt, x[6])), x[4], x[5], x[6]>>,
                 !.kf_P = [i \in 1..3 |-> PredBlock(P[i])]]

_kf_predict(dt, st) == _kf_predict_with(kf_q, kf_r, dt, st)

\* y = z - H x ; S = H P H^T + R ; K = P H^T S^-1 ; x = x + K y ; P = (I - K H) P
_kf_update_with(q, r, z, st) ==
  LET m == _kf_mats_with(q, r, RZero)
      x == st.kf_x
      P == st.kf_P
      y(i) == RSub(z[i], x[i])
      S(i) == RAdd(P[i][1], m.r)
      Kp(i) == RDiv(P[i][1], S(i))
      Kv(i) == RDiv(P[i][2], S(i))
      UpdBlock(i) ==
        <<RMul(RSub(ROne, Kp(i)), P[i][1]),
          RMul(RSub(ROne, Kp(i)), P[i][2]),
          RSub(P[i][3], RMul(Kv(i), P[i][2]))>>
  IN  [st EXCEPT !.kf_x = <<RAdd(x[1], RMul(Kp(1), y(1))), RAdd(x[2], RMul(Kp(2), y(2))),
                            RAdd(x[3], RMul(Kp(3), y(3))), RAdd(x[4], RMul(Kv(1), y(1))),
                            RAdd(x[5], RMul(Kv(2), y(2))), RAdd(x[6], RMul(Kv(3), y(3)))>>,
                 !.kf_P = [i \in 1..3 |-> UpdBlock(i)]]

_kf_update(z, st) == _kf_update_with(kf_q, kf_r, z, st)

\* "self._last_update_ts = ts_now ; return self._kf_x[:3].copy()"
_kf_result(upd, ts_now) ==
  [out |-> <<upd.kf_x[1], upd.kf_x[2], upd.kf_x[3]>>,
   st |-> [upd EXCEPT !.last_update_ts = <<ts_now>>]]

_apply_kf_with(q, r, z, ts_now, st) ==
  IF ~st.kf_initialized
  THEN [out |-> z, st |-> [_kf_init(z, st) EXCEPT !.last_update_ts = <<ts_now>>]]
  ELSE _kf_result(_kf_update_with(q, r, z,
                    _kf_predict_with(q, r,
                                     IF st.last_update_ts # None
                                     THEN RMax(RZero, RSub(ts_now, st.last_update_ts[1]))
                                     ELSE RZero,
                                     st)),
                  ts_now)

_apply_kf(z, ts_now, st) == _apply_kf_with(kf_q, kf_r, z, ts_now, st)

\* the filter fed, but the unsmoothed point returned
smoothTip_rawOutput(proposed_xyz, tnow, enabled, method, st) ==
  IF ~enabled
  THEN [out |-> proposed_xyz, st |-> st]
  ELSE IF method = "Kalman"
       THEN [out |-> proposed_xyz, st |-> _apply_kf(proposed_xyz, tnow, st).st]
       ELSE [out |-> proposed_xyz, st |-> _apply_ema(proposed_xyz, st).st]

smoothTip(proposed_xyz, tnow, enabled, method, st) ==
  IF ~enabled
  THEN [out |-> proposed_xyz, st |-> st]
  ELSE IF method = "Kalman"
       THEN _apply_kf(proposed_xyz, tnow, st)
       ELSE _apply_ema(proposed_xyz, st)

(***************************************************************************)
(* Scan planes: initializeScanPlane, updateScanPlane                       *)
(***************************************************************************)
PlaneRotation(plane) ==
  CASE plane = "COR" -> COR_ROT [] plane = "SAG" -> SAG_ROT [] plane = "AX" -> AX_ROT

\* builds a fresh matrix m (identity), sets the rotation and the translation
initializeScanPlane(coordinates, plane, sliceOnly) ==
  [rot |-> PlaneRotation(plane),
   trans |-> IF sliceOnly
             THEN SetAxis(Origin, ThroughAxis(plane), coordinates[ThroughAxis(plane)])
             ELSE coordinates]

\* the tip written into a fresh matrix instead of the plane's own
updateScanPlane_fresh(plane_matrix, tip, plane, sliceOnly) ==
  [rot |-> IDENTITY_ROT, trans |-> tip]

\* every coordinate overwritten whatever the mode
updateScanPlane_full(plane_matrix, tip, plane, sliceOnly) ==
  [plane_matrix EXCEPT !.trans = tip]

\* reads the plane's matrix, overwrites translation elements with the
\* tracked tip's, writes the matrix back
updateScanPlane(plane_matrix, tip, plane, sliceOnly) ==
  IF ~sliceOnly
  THEN [plane_matrix EXCEPT !.trans = tip]
  ELSE [plane_matrix EXCEPT
          !.trans = SetAxis(plane_matrix.trans, ThroughAxis(plane), tip[ThroughAxis(plane)])]

\* every active plane, the reporting one included
FanOut_all(plane, use) ==
  SelectSeq(<<"COR", "SAG", "AX">>, LAMBDA q : use[PlaneIdx(q)])

\* the planes the widget's getNeedle updates after a cycle of `plane`, in
\* the order of its if-statements
FanOut(plane, use) ==
  LET order == CASE plane = "COR" -> <<"SAG", "AX">>
                 [] plane = "SAG" -> <<"COR", "AX">>
                 [] plane = "AX" -> <<"COR", "SAG">>
  IN  SelectSeq(order, LAMBDA q : use[PlaneIdx(q)])

\* the gate open for every detection
TipGate_always(confidence, level) == confidence >= 1

\* the gate compared with the default level instead of the selected one
TipGate_fixed(confidence, level) == confidence >= 3

\* logic.getNeedle, step 8: "if (confidence >= confidenceLevel)"
TipGate(confidence, level) == confidence >= level

\* the planes updated after every detection
PlaneGate_ungated(confidence, level, updateOn) == updateOn

\* widget.getNeedle: "if self.updateScanPlane is True: if confidence >= self.confidenceLevel"
PlaneGate(confidence, level, updateOn) == updateOn /\ confidence >= level

\* the handler also writing the image it was called for
NodesWritten_inputVolume(plane, detected, confident, targets) ==
  {<<"needleLabelMap", plane>>, <<"inputVolume", plane>>}
  \cup (IF detected THEN {<<"tipSegm", "">>, <<"needleConfidence", "">>} ELSE {})
  \cup (IF confident THEN {<<"tipTracked", "">>} ELSE {})
  \cup {<<"scanPlane", targets[i]>> : i \in 1..Len(targets)}

\* the scene nodes one run of the widget's getNeedle modifies: the plane's
\* label map (step 2), tipSegmNode (step 7), tipTrackedNode and
\* needleConfidenceNode (step 8), the transform of every updated plane
NodesWritten(plane, detected, confident, targets) ==
  {<<"needleLabelMap", plane>>}
  \cup (IF detected THEN {<<"tipSegm", "">>, <<"needleConfidence", "">>} ELSE {})
  \cup (IF confident THEN {<<"tipTracked", "">>} ELSE {})
  \cup {<<"scanPlane", targets[i]>> : i \in 1..Len(targets)}

\* addOrReplaceObserver: the node whose ImageDataModifiedEvent calls
\* receivedImagePlane0/1/2
ObservedVolume(plane) == <<"inputVolume", plane>>

\* the callbacks a write to the given nodes invokes at once, inside the
\* handler that is writing (observers run synchronously in the writer)
Reentered(written, registered) == {p \in registered : ObservedVolume(p) \in written}

(***************************************************************************)
(* State                                                                   *)
(***************************************************************************)
VARIABLES
  isTrackingOn,        \* widget.isTrackingOn
  useScanPlanes,       \* widget.useScanPlanes, <<COR, SAG, AX>>
  updateScanPlaneOn,   \* widget.updateScanPlane (the check box value)
  centerScanAtTip,     \* widget.centerScanAtTip
  confidenceLevel,     \* widget.confidenceLevel, the threshold 1..5
  pushTipToRobot,      \* widget.pushTipToRobot
  smoothingEnabled,    \* logic.smoothingEnabled
  smoothingMethod,     \* logic.smoothingMethod
  pendingScans,        \* the part of orderVector initializeScans has not yet processed
  observers,           \* planes whose receivedImagePlane callback is registered
  img_counter,         \* logic.img_counter
  prevDetection,       \* logic.prevDetection, entries "None" / "False" / "True"
  tipSegm,             \* translation of logic.tipSegmNode
  tipTracked,          \* translation of logic.tipTrackedNode
  needleConfidence,    \* confidence written to logic.needleConfidenceNode (0: no text yet)
  smooth,              \* logic._emaPos, _kf_initialized, _kf_x, _kf_P, _last_update_ts
  scanPlanes,          \* the matrices of logic.scanPlane0/1/2TransformNode
  pushed,              \* nodes pushed over OpenIGTLink by the handler that ran last
  cycle,               \* arguments and result of the session's last logic.getNeedle call
  reports,             \* the session's confident cycles, oldest first: plane, centerRAS
                       \* and the tracked tip the cycle left (what the CSV row and the
                       \* trajectory point of such a cycle record)
  sessions,            \* number of startTracking calls so far
  sends,               \* number of sendPlane0/1/2 calls so far
  fnArgs,              \* arguments of the function a unit run applies (None: no unit run)
  fnResult             \* what the function returned (None: not yet called)

cfgVars == <<useScanPlanes, updateScanPlaneOn, centerScanAtTip, confidenceLevel,
             pushTipToRobot, smoothingEnabled, smoothingMethod>>
logicVars == <<img_counter, prevDetection, tipSegm, tipTracked, needleConfidence, smooth>>
unitVars == <<fnArgs, fnResult>>
vars == <<isTrackingOn, cfgVars, pendingScans, observers, logicVars, scanPlanes,
          pushed, cycle, reports, sessions, sends, unitVars>>

NoSmoothing ==
  [emaPos |-> None, kf_initialized |-> FALSE, kf_x |-> None, kf_P |-> None,
   last_update_ts |-> None]

\* found: steps 3 to 5 selected a tip or a shaft component;
\* tip_center: the image-space point step 6 chose;
\* returned: the call ran to its return statement;
\* nested: the planes whose callback was invoked while the handler ran
NoCycle ==
  [plane |-> "none", found |-> FALSE, confidence |-> NoneConf, tip_center |-> Origin,
   centerRAS |-> Origin,
   image |-> [center |-> Origin, thickness |-> RZero],
   returned |-> FALSE, nested |-> {}]

\* AINeedleTrackingWidget.setup and AINeedleTrackingLogic.__init__ in a new scene
ModuleLoaded ==
  /\ isTrackingOn = FALSE
  /\ useScanPlanes = <<FALSE, FALSE, FALSE>>
  /\ updateScanPlaneOn = FALSE
  /\ centerScanAtTip = FALSE
  /\ confidenceLevel = 3
  /\ pushTipToRobot = FALSE
  /\ smoothingEnabled = FALSE
  /\ smoothingMethod = "EMA"
  /\ pendingScans = <<>>
  /\ observers = {}
  /\ img_counter = 0
  /\ prevDetection = <<"None", "None", "None">>
  /\ tipSegm = Origin
  /\ tipTracked = Origin
  /\ needleConfidence = 0
  /\ smooth = NoSmoothing
  /\ scanPlanes = [p \in Planes |-> initializeScanPlane(Origin, p, FALSE)]
  /\ pushed = <<>>
  /\ cycle = NoCycle
  /\ reports = <<>>
  /\ sessions = 0
  /\ sends = 0

Init ==
  /\ ModuleLoaded
  /\ fnArgs = None
  /\ fnResult = None

(***************************************************************************)
(* Configurations read by startTracking                                    *)
(***************************************************************************)
\* A configuration is what startTracking reads from the GUI:
\*   use   : the three "use plane" check boxes, <<COR, SAG, AX>>
\*   upd   : <<updateScanPlaneCheckBox, centerAtTipCheckBox>>
\*   sm    : <<smoothTipCheckBox, smoothingMethodCombo>>
\*   lvl   : confidenceComboBox.currentIndex + 1
\*   push  : pushTipToRobotCheckBox
\*   order : the text of orderTextbox, split at commas
UseSets == {<<TRUE, TRUE, TRUE>>, <<TRUE, TRUE, FALSE>>, <<FALSE, TRUE, TRUE>>,
            <<TRUE, FALSE, FALSE>>}
UpdateModes == {<<FALSE, FALSE>>, <<TRUE, FALSE>>, <<TRUE, TRUE>>}
SmoothingModes == {<<FALSE, "EMA">>, <<TRUE, "EMA">>, <<TRUE, "Kalman">>}
Orders == {<<"COR", "SAG", "AX">>, <<"SAG", "COR">>, <<"AX", "XX", "AX">>}
\* coordinates a manual plane send can carry
SendCoords == {Vec(7, 8, 9)}

\* configurations of Spec: every smoothing mode, scan-plane updating off;
\* the Kalman sessions run at the default threshold only
FusionConfigs ==
  {cfg \in [use : {<<TRUE, TRUE, TRUE>>, <<TRUE, TRUE, FALSE>>}, upd : {<<FALSE, FALSE>>},
            sm : SmoothingModes, lvl : {1, 3, 5}, push : {FALSE}, order : Orders] :
     cfg.sm[2] = "Kalman" => cfg.lvl = 3}

\* configurations of SpecPlanes: every plane set and update mode, no smoothing
PlaneConfigs ==
  [use : UseSets, upd : UpdateModes, sm : {<<FALSE, "EMA">>}, lvl : {3},
   push : BOOLEAN, order : {<<"COR", "SAG", "AX">>}]

Range(q) == {q[i] : i \in 1..Len(q)}

(***************************************************************************)
(* Operations                                                              *)
(***************************************************************************)
\* the reset without its smoothing part
initializeTracking_keepFilter(use) ==
  /\ img_counter' = 0
  /\ prevDetection' = <<IF use[1] THEN "False" ELSE "None",
                        IF use[2] THEN "False" ELSE "None",
                        IF use[3] THEN "False" ELSE "None">>
  /\ tipSegm' = Origin
  /\ tipTracked' = Origin
  /\ UNCHANGED smooth

\* AINeedleTrackingLogic.initializeTracking
initializeTracking(use) ==
  /\ img_counter' = 0
  /\ prevDetection' = <<IF use[1] THEN "False" ELSE "None",
                        IF use[2] THEN "False" ELSE "None",
                        IF use[3] THEN "False" ELSE "None">>
  /\ tipSegm' = Origin
  /\ tipTracked' = Origin
  /\ smooth' = NoSmoothing

\* startTracking with the three planes put back at their default pose
StartSession_defaultPlanes(cfg, maxSessions) ==
  /\ ~isTrackingOn
  /\ sessions < maxSessions
  /\ isTrackingOn' = TRUE
  /\ useScanPlanes' = cfg.use
  /\ updateScanPlaneOn' = cfg.upd[1]
  /\ centerScanAtTip' = cfg.upd[2]
  /\ confidenceLevel' = cfg.lvl
  /\ pushTipToRobot' = cfg.push
  /\ smoothingEnabled' = cfg.sm[1]
  /\ smoothingMethod' = cfg.sm[2]
  /\ initializeTracking(cfg.use)
  /\ pendingScans' = cfg.order
  /\ pushed' = <<>>
  /\ cycle' = NoCycle
  /\ reports' = <<>>
  /\ sessions' = sessions + 1
  /\ scanPlanes' = [p \in Planes |-> initializeScanPlane(Origin, p, FALSE)]
  /\ UNCHANGED <<observers, needleConfidence, sends,
                 unitVars>>

\* AINeedleTrackingWidget.startTracking up to the call of initializeScans,
\* whose loop is then run by InitScan, one orderVector entry per step
StartSession(cfg, maxSessions) ==
  /\ ~isTrackingOn
  /\ sessions < maxSessions
  /\ isTrackingOn' = TRUE
  /\ useScanPlanes' = cfg.use
  /\ updateScanPlaneOn' = cfg.upd[1]
  /\ centerScanAtTip' = cfg.upd[2]
  /\ confidenceLevel' = cfg.lvl
  /\ pushTipToRobot' = cfg.push
  /\ smoothingEnabled' = cfg.sm[1]
  /\ smoothingMethod' = cfg.sm[2]
  /\ initializeTracking(cfg.use)
  /\ pendingScans' = cfg.order
  /\ pushed' = <<>>
  /\ cycle' = NoCycle
  /\ reports' = <<>>
  /\ sessions' = sessions + 1
  /\ UNCHANGED <<observers, needleConfidence, scanPlanes, sends,
                 unitVars>>

StartTracking(cfg) == StartSession(cfg, MaxSessions)

\* the cycle with the plane poses computed from the tracked tip it started with
Cycle_planesFirst(plane, det, img, tnow) ==
  LET c == getConfidence(det, minTipSize, minShaftSize)
      centerRAS == ToRAS(c.tip_center)
      detected == c.confidence # NoneConf
      confident == detected /\ TipGate(c.confidence, confidenceLevel)
  IN
  \* sm: proposed_sm and the smoothing state smoothTip leaves, computed from
  \* the fused point only in the confident branch
  \E sm \in {IF confident
              THEN smoothTip(FuseTip(plane, tipTracked, prevDetection, centerRAS, img),
                             tnow, smoothingEnabled, smoothingMethod, smooth)
              ELSE [out |-> tipTracked, st |-> smooth]} :
  LET newTracked == sm.out
      targets == IF detected /\ PlaneGate(c.confidence, confidenceLevel, updateScanPlaneOn)
                 THEN FanOut(plane, useScanPlanes)
                 ELSE <<>>
      newPlanes == [q \in Planes |->
                      IF q \in Range(targets)
                      THEN updateScanPlane(scanPlanes[q], tipTracked, q, ~centerScanAtTip)
                      ELSE scanPlanes[q]]
      planePushes == [i \in 1..Len(targets) |->
                        [node |-> targets[i], data |-> newPlanes[targets[i]].trans]]
      tipPushes == IF detected /\ pushTipToRobot
                   THEN <<[node |-> "CurrentTrackedTip", data |-> newTracked],
                          [node |-> "CurrentTipConfidence", data |-> <<R(c.confidence)>>]>>
                   ELSE <<>>
  IN  /\ img_counter' = img_counter + 1
      /\ tipSegm' = IF detected THEN centerRAS ELSE tipSegm
      /\ prevDetection' = IF confident THEN MarkDetection(prevDetection, plane)
                          ELSE prevDetection
      /\ tipTracked' = newTracked
      /\ smooth' = sm.st
      /\ needleConfidence' = IF detected THEN c.confidence ELSE needleConfidence
      /\ scanPlanes' = newPlanes
      /\ pushed' = planePushes \o tipPushes
      /\ cycle' = [plane |-> plane, found |-> det.tip \/ det.shaft,
                   confidence |-> c.confidence,
                   tip_center |-> IF detected THEN c.tip_center ELSE Origin,
                   centerRAS |-> IF detected THEN centerRAS ELSE Origin,
                   image |-> img, returned |-> TRUE,
                   nested |-> Reentered(NodesWritten(plane, detected, confident, targets),
                                        observers)]
      /\ reports' = IF confident
                    THEN Append(reports, [plane |-> plane, centerRAS |-> centerRAS,
                                          tracked |-> newTracked])
                    ELSE reports

\* One tracking cycle: AINeedleTrackingWidget.getNeedle with tracking on,
\* i.e. AINeedleTrackingLogic.getNeedle (steps 6 to 8) followed by the
\* scan-plane updates and the pushes.
\*   det  : what steps 0 to 5 produced from the images
\*   img  : centre and slice thickness of the input image
\*   tnow : the value of time.time() read by smoothTip
Cycle(plane, det, img, tnow) ==
  LET c == getConfidence(det, minTipSize, minShaftSize)
      centerRAS == ToRAS(c.tip_center)
      detected == c.confidence # NoneConf
      confident == detected /\ TipGate(c.confidence, confidenceLevel)
  IN
  \* sm: proposed_sm and the smoothing state smoothTip leaves, computed from
  \* the fused point only in the confident branch
  \E sm \in {IF confident
              THEN smoothTip(FuseTip(plane, tipTracked, prevDetection, centerRAS, img),
                             tnow, smoothingEnabled, smoothingMethod, smooth)
              ELSE [out |-> tipTracked, st |-> smooth]} :
  LET newTracked == sm.out
      targets == IF detected /\ PlaneGate(c.confidence, confidenceLevel, updateScanPlaneOn)
                 THEN FanOut(plane, useScanPlanes)
                 ELSE <<>>
      newPlanes == [q \in Planes |->
                      IF q \in Range(targets)
                      THEN updateScanPlane(scanPlanes[q], newTracked, q, ~centerScanAtTip)
                      ELSE scanPlanes[q]]
      planePushes == [i \in 1..Len(targets) |->
                        [node |-> targets[i], data |-> newPlanes[targets[i]].trans]]
      tipPushes == IF detected /\ pushTipToRobot
                   THEN <<[node |-> "CurrentTrackedTip", data |-> newTracked],
                          [node |-> "CurrentTipConfidence", data |-> <<R(c.confidence)>>]>>
                   ELSE <<>>
  IN  /\ img_counter' = img_counter + 1
      /\ tipSegm' = IF detected THEN centerRAS ELSE tipSegm
      /\ prevDetection' = IF confident THEN MarkDetection(prevDetection, plane)
                          ELSE prevDetection
      /\ tipTracked' = newTracked
      /\ smooth' = sm.st
      /\ needleConfidence' = IF detected THEN c.confidence ELSE needleConfidence
      /\ scanPlanes' = newPlanes
      /\ pushed' = planePushes \o tipPushes
      /\ cycle' = [plane |-> plane, found |-> det.tip \/ det.shaft,
                   confidence |-> c.confidence,
                   tip_center |-> IF detected THEN c.tip_center ELSE Origin,
                   centerRAS |-> IF detected THEN centerRAS ELSE Origin,
                   image |-> img, returned |-> TRUE,
                   nested |-> Reentered(NodesWritten(plane, detected, confident, targets),
                                        observers)]
      /\ reports' = IF confident
                    THEN Append(reports, [plane |-> plane, centerRAS |-> centerRAS,
                                          tracked |-> newTracked])
                    ELSE reports

\* initializeScans, one iteration of its loop: an unknown or disabled entry
\* is skipped ...
InitScanSkip ==
  /\ pendingScans # <<>>
  /\ IF Head(pendingScans) \in Planes
     THEN ~useScanPlanes[PlaneIdx(Head(pendingScans))]
     ELSE TRUE
  /\ pendingScans' = Tail(pendingScans)
  /\ UNCHANGED <<isTrackingOn, cfgVars, observers, logicVars, scanPlanes, pushed,
                 cycle, reports, sessions, sends,
                 unitVars>>

\* the loop of initializeScans taking the entries from the end of the order
InitScanFrom_lastFirst(dets) ==
  /\ pendingScans # <<>>
  /\ pendingScans[Len(pendingScans)] \in Planes
  /\ useScanPlanes[PlaneIdx(pendingScans[Len(pendingScans)])]
  /\ isTrackingOn
  /\ \E det \in dets, img \in Images, tnow \in Nows(smooth.last_update_ts) :
       Cycle(pendingScans[Len(pendingScans)], det, img, tnow)
  /\ observers' = observers \cup {pendingScans[Len(pendingScans)]}
  /\ pendingScans' = SubSeq(pendingScans, 1, Len(pendingScans) - 1)
  /\ UNCHANGED <<isTrackingOn, cfgVars, sessions, sends,
                 unitVars>>

\* ... and for an enabled plane getNeedle runs, then addOrReplaceObserver
\* (dets: the detections the frames of the run can yield)
InitScanFrom(dets) ==
  /\ pendingScans # <<>>
  /\ Head(pendingScans) \in Planes
  /\ useScanPlanes[PlaneIdx(Head(pendingScans))]
  /\ isTrackingOn
  /\ \E det \in dets, img \in Images, tnow \in Nows(smooth.last_update_ts) :
       Cycle(Head(pendingScans), det, img, tnow)
  /\ observers' = observers \cup {Head(pendingScans)}
  /\ pendingScans' = Tail(pendingScans)
  /\ UNCHANGED <<isTrackingOn, cfgVars, sessions, sends,
                 unitVars>>

InitScan == InitScanFrom(Detections)

\* receivedImagePlane0/1/2: the ImageDataModifiedEvent callback of a plane
ReceivedImageFrom(plane, dets) ==
  /\ plane \in observers
  /\ pendingScans = <<>>
  /\ img_counter < MaxCycles
  /\ useScanPlanes[PlaneIdx(plane)]
  /\ isTrackingOn
  /\ \E det \in dets, img \in Images, tnow \in Nows(smooth.last_update_ts) :
       Cycle(plane, det, img, tnow)
  /\ UNCHANGED <<isTrackingOn, cfgVars, pendingScans, observers, sessions, sends,
                 unitVars>>

ReceivedImage(plane) == ReceivedImageFrom(plane, Detections)

\* stopTracking followed by the reset of initializeTracking
StopTracking_reset ==
  /\ isTrackingOn
  /\ pendingScans = <<>>
  /\ isTrackingOn' = FALSE
  /\ observers' = {p \in observers : ~useScanPlanes[PlaneIdx(p)]}
  /\ pushed' = <<>>
  /\ initializeTracking(useScanPlanes)
  /\ UNCHANGED <<cfgVars, pendingScans, needleConfidence, scanPlanes, cycle, reports,
                 sessions, sends,
                 unitVars>>

\* AINeedleTrackingWidget.stopTracking
StopTracking ==
  /\ isTrackingOn
  /\ pendingScans = <<>>
  /\ isTrackingOn' = FALSE
  /\ observers' = {p \in observers : ~useScanPlanes[PlaneIdx(p)]}
  /\ pushed' = <<>>
  /\ UNCHANGED <<cfgVars, pendingScans, logicVars, scanPlanes, cycle, reports,
                 sessions, sends,
                 unitVars>>

\* sendPlane0/1/2 (the buttons are enabled only while tracking is off):
\* initializeScanPlane at the given coordinates, then pushScanPlaneToIGTLink
SendPlane(plane, coordinates) ==
  /\ ~isTrackingOn
  /\ sends < MaxSends
  /\ scanPlanes' = [scanPlanes EXCEPT ![plane] = initializeScanPlane(coordinates, plane, FALSE)]
  /\ pushed' = <<[node |-> plane, data |-> scanPlanes'[plane].trans]>>
  /\ sends' = sends + 1
  /\ UNCHANGED <<isTrackingOn, cfgVars, pendingScans, observers, logicVars, cycle,
                 reports, sessions,
                 unitVars>>

Next ==
  \/ \E cfg \in FusionConfigs : StartTracking(cfg)
  \/ InitScanSkip
  \/ InitScan
  \/ \E plane \in Planes : ReceivedImage(plane)
  \/ StopTracking

Spec == Init /\ [][Next]_vars

NextPlanes ==
  \/ \E cfg \in PlaneConfigs : StartTracking(cfg)
  \/ InitScanSkip
  \/ InitScan
  \/ \E plane \in Planes : ReceivedImage(plane)
  \/ StopTracking
  \/ \E plane \in Planes, coordinates \in SendCoords : SendPlane(plane, coordinates)

SpecPlanes == Init /\ [][NextPlanes]_vars

\* Repeated sessions: a run may start tracking again after a stop, with
\* another plane set and either EMA with full re-centering of the planes
\* or Kalman without plane updates; the frames yield nothing, a lone small
\* tip (Low) or a large tip connected to a large shaft (High).
SessionConfigs ==
  {cfg \in [use : {<<TRUE, TRUE, FALSE>>, <<FALSE, TRUE, TRUE>>},
            upd : {<<FALSE, FALSE>>, <<TRUE, TRUE>>},
            sm : {<<TRUE, "EMA">>, <<TRUE, "Kalman">>}, lvl : {3}, push : {FALSE},
            order : {<<"COR", "SAG", "AX">>}] :
     cfg.upd[1] <=> cfg.sm[2] = "EMA"}

SessionDetections ==
  {d \in Detections :
     \/ ~d.tip /\ ~d.shaft
     \/ d.tip /\ ~d.shaft /\ d.tip_size < minTipSize
     \/ d.tip /\ d.shaft /\ d.connected /\ d.tip_size >= minTipSize
          /\ d.shaft_size >= minShaftSize}

NextSessions ==
  \/ \E cfg \in SessionConfigs : StartSession(cfg, MaxSessions + MaxRestarts)
  \/ InitScanSkip
  \/ InitScanFrom(SessionDetections)
  \/ \E plane \in Planes : ReceivedImageFrom(plane, SessionDetections)
  \/ StopTracking

SpecSessions == Init /\ [][NextSessions]_vars

\* Cycles cut short by an exception.  logic.getNeedle and the widget's
\* getNeedle contain no try/except around steps 0 to 8, so an exception
\* raised in a statement leaves the assignments made before it and skips
\* everything after it; the callback ends there.  The places it is raised at:
\*   "inference" : steps 0 to 2, before anything but the counter is written
\*   "smoothTip" : in smoothTip before it assigns any filter attribute
\*   "_kf_update": np.linalg.inv(S), after _kf_predict assigned _kf_x, _kf_P
ErrorPoints == {"inference", "smoothTip", "_kf_update"}

CycleAborted(plane, det, img, tnow, at) ==
  LET c == getConfidence(det, minTipSize, minShaftSize)
      centerRAS == ToRAS(c.tip_center)
      detected == c.confidence # NoneConf
      confident == detected /\ TipGate(c.confidence, confidenceLevel)
      reached == at # "inference"
      dt == IF smooth.last_update_ts # None
            THEN RMax(RZero, RSub(tnow, smooth.last_update_ts[1]))
            ELSE RZero
  IN  /\ reached => confident /\ smoothingEnabled
      /\ at = "_kf_update" => smoothingMethod = "Kalman" /\ smooth.kf_initialized
      /\ img_counter' = img_counter + 1
      /\ tipSegm' = IF reached THEN centerRAS ELSE tipSegm
      /\ prevDetection' = IF reached THEN MarkDetection(prevDetection, plane)
                          ELSE prevDetection
      /\ smooth' = IF at = "_kf_update" THEN _kf_predict(dt, smooth) ELSE smooth
      /\ pushed' = <<>>
      /\ cycle' = [plane |-> plane, found |-> reached /\ (det.tip \/ det.shaft),
                   confidence |-> IF reached THEN c.confidence ELSE NoneConf,
                   tip_center |-> IF reached THEN c.tip_center ELSE Origin,
                   centerRAS |-> IF reached THEN centerRAS ELSE Origin,
                   image |-> img, returned |-> FALSE, nested |-> {}]
      /\ UNCHANGED <<tipTracked, needleConfidence, scanPlanes, reports>>

\* receivedImagePlane0/1/2 whose cycle raises at the given place
ReceivedImageAborted(plane, dets, at) ==
  /\ plane \in observers
  /\ pendingScans = <<>>
  /\ img_counter < MaxCycles
  /\ useScanPlanes[PlaneIdx(plane)]
  /\ isTrackingOn
  /\ \E det \in dets, img \in Images, tnow \in Nows(smooth.last_update_ts) :
       CycleAborted(plane, det, img, tnow, at)
  /\ UNCHANGED <<isTrackingOn, cfgVars, pendingScans, observers, sessions, sends,
                 unitVars>>

\* sessions on the coronal and sagittal planes with each smoothing mode
ErrorConfigs ==
  [use : {<<TRUE, TRUE, FALSE>>}, upd : {<<FALSE, FALSE>>}, sm : SmoothingModes,
   lvl : {3}, push : {FALSE}, order : {<<"COR", "SAG", "AX">>}]

NextErrors ==
  \/ \E cfg \in ErrorConfigs : StartTracking(cfg)
  \/ InitScanSkip
  \/ InitScanFrom(SessionDetections)
  \/ \E plane \in Planes : ReceivedImageFrom(plane, SessionDetections)
  \/ \E plane \in Planes, at \in ErrorPoints :
       ReceivedImageAborted(plane, SessionDetections, at)
  \/ StopTracking

SpecErrors == Init /\ [][NextErrors]_vars

\* Sessions started while confidenceComboBox has no current item (the index
\* updateGUIFromParameterNode sets from the parameter node is not one of the
\* five items), so that currentIndex + 1 is 0
InvalidConfigs ==
  [use : {<<TRUE, TRUE, FALSE>>, <<FALSE, TRUE, TRUE>>}, upd : {<<TRUE, FALSE>>},
   sm : {<<FALSE, "EMA">>, <<TRUE, "EMA">>}, lvl : {0}, push : {FALSE},
   order : {<<"COR", "SAG", "AX">>}]

NextInvalid ==
  \/ \E cfg \in InvalidConfigs : StartTracking(cfg)
  \/ InitScanSkip
  \/ InitScanFrom(SessionDetections)
  \/ \E plane \in Planes : ReceivedImageFrom(plane, SessionDetections)
  \/ StopTracking

SpecInvalid == Init /\ [][NextInvalid]_vars

\* The image callback of a plane invoked while its two conditions in
\* receivedImagePlane0/1/2 and in the widget's getNeedle do not both hold.
\* The handler that ran regardless of them:
ReceivedImageIdle_ungated(plane) ==
  /\ ~(useScanPlanes[PlaneIdx(plane)] /\ isTrackingOn)
  /\ pendingScans = <<>>
  /\ img_counter < MaxCycles
  /\ \E det \in SessionDetections, img \in Images, tnow \in Nows(smooth.last_update_ts) :
       Cycle(plane, det, img, tnow)
  /\ UNCHANGED <<isTrackingOn, cfgVars, pendingScans, observers, sessions, sends,
                 unitVars>>

\* "if self.useScanPlanes[i]:" false, or "if self.isTrackingOn:" false: the
\* handler returns having called nothing but the timer and print
ReceivedImageIdle(plane) ==
  /\ ~(useScanPlanes[PlaneIdx(plane)] /\ isTrackingOn)
  /\ pendingScans = <<>>
  /\ pushed' = <<>>
  /\ UNCHANGED <<isTrackingOn, cfgVars, pendingScans, observers, logicVars, scanPlanes,
                 cycle, reports, sessions, sends, unitVars>>

\* sessions on one or three planes that push the tip and move the planes
IdleConfigs ==
  [use : {<<TRUE, TRUE, TRUE>>, <<TRUE, FALSE, FALSE>>},
   upd : {<<TRUE, FALSE>>, <<TRUE, TRUE>>},
   sm : {<<FALSE, "EMA">>, <<TRUE, "EMA">>}, lvl : {3}, push : {TRUE},
   order : {<<"COR", "SAG", "AX">>}]

NextIdle ==
  \/ \E cfg \in IdleConfigs : StartSession(cfg, MaxSessions + MaxRestarts)
  \/ InitScanSkip
  \/ InitScanFrom(SessionDetections)
  \/ \E plane \in Planes : ReceivedImageFrom(plane, SessionDetections)
  \/ \E plane \in Planes : ReceivedImageIdle(plane)
  \/ StopTracking

SpecIdle == Init /\ [][NextIdle]_vars

(***************************************************************************)
(* Unit run of step 6: the classifier applied to one selector output       *)
(***************************************************************************)
\* sizes on both sides of each threshold, and the thresholds themselves
TipSizeRange == {minTipSize - 1, minTipSize, minTipSize + 5}
ShaftSizeRange == {minShaftSize - 1, minShaftSize, minShaftSize + 10, minShaftSize + 20}
MinTipRange == {minTipSize}
MinShaftRange == {minShaftSize, minShaftSize + 15}

\* what steps 3 to 5 can hand to step 6: an absent component has size 0,
\* and connected is True only when both components exist
SelectorOutputs ==
  {d \in [tip : BOOLEAN, shaft : BOOLEAN, connected : BOOLEAN,
          tip_size : TipSizeRange \cup {0}, shaft_size : ShaftSizeRange \cup {0},
          tip_center : {Vec(1, 2, 3)}, shaft_tip : {Vec(4, 5, 6)}] :
     /\ d.tip <=> d.tip_size # 0
     /\ d.shaft <=> d.shaft_size # 0
     /\ d.connected => d.tip /\ d.shaft}

InitClassifier ==
  /\ ModuleLoaded
  /\ fnArgs \in [det : SelectorOutputs, minTip : MinTipRange, minShaft : MinShaftRange]
  /\ fnResult = None

\* step 6 of logic.getNeedle on the drawn selector output
ApplyClassifier ==
  /\ fnResult = None
  /\ fnResult' = getConfidence(fnArgs.det, fnArgs.minTip, fnArgs.minShaft)
  /\ UNCHANGED <<isTrackingOn, cfgVars, pendingScans, observers, logicVars, scanPlanes,
                 pushed, cycle, reports, sessions, sends, fnArgs>>

NextClassifier == ApplyClassifier

SpecClassifier == InitClassifier /\ [][NextClassifier]_vars

(***************************************************************************)
(* Unit run of step 5: the selection applied to one pair of component      *)
(* lists                                                                   *)
(***************************************************************************)
\* the lists separateComponents can return for up to MaxComponents
\* components: sizes around the threshold, largest first; the labels are
\* those of ConnectedComponent, here the reverse of the size rank
ComponentLists(minSize) ==
  UNION {{q \in [1..n -> [label : 1..n, size : {minSize - 1, minSize},
                          centroid : {Vec(k, k + 1, k + 2) : k \in 1..n}]] :
            /\ \A i \in 1..n : q[i].label = n + 1 - i
                                 /\ q[i].centroid = Vec(q[i].label, q[i].label + 1,
                                                        q[i].label + 2)
            /\ \A i \in 1..(n - 1) : q[i].size >= q[i + 1].size} :
         n \in 0..MaxComponents}

\* label pairs among the two largest components of each list, and the rest
TopPairs(tip_dict, shaft_dict) ==
  {<<tip_dict[i].label, shaft_dict[j].label>> :
     i \in {k \in 1..Len(tip_dict) : k <= 2}, j \in {k \in 1..Len(shaft_dict) : k <= 2}}
AllPairs(tip_dict, shaft_dict) ==
  {<<tip_dict[i].label, shaft_dict[j].label>> :
     i \in 1..Len(tip_dict), j \in 1..Len(shaft_dict)}

\* the images behind the lists: any adjacency among the two largest of each
\* class, the smaller components touching everything or nothing
SelectorInputs ==
  UNION {{[tip_dict |-> td, shaft_dict |-> sd, adjacent |-> top \cup rest,
           minTip |-> minTipSize, minShaft |-> minShaftSize] :
            top \in SUBSET TopPairs(td, sd),
            rest \in {{}, AllPairs(td, sd) \ TopPairs(td, sd)}} :
         td \in ComponentLists(minTipSize), sd \in ComponentLists(minShaftSize)}

InitSelector ==
  /\ ModuleLoaded
  /\ fnArgs \in SelectorInputs
  /\ fnResult = None

\* step 5 of logic.getNeedle on the drawn component lists
ApplySelector ==
  /\ fnResult = None
  /\ fnResult' = selectLabels(fnArgs.tip_dict, fnArgs.shaft_dict, fnArgs.adjacent,
                              fnArgs.minTip, fnArgs.minShaft)
  /\ UNCHANGED <<isTrackingOn, cfgVars, pendingScans, observers, logicVars, scanPlanes,
                 pushed, cycle, reports, sessions, sends, fnArgs>>

NextSelector == ApplySelector

SpecSelector == InitSelector /\ [][NextSelector]_vars

(***************************************************************************)
(* Unit run of separateComponents: the same mask passed to it twice        *)
(***************************************************************************)
Masks == [1..MaskLen -> {0, 1}]

InitExtractor ==
  /\ ModuleLoaded
  /\ fnArgs \in [mask : Masks]
  /\ fnResult = None

\* the first call
ApplyExtractor ==
  /\ fnResult = None
  /\ fnResult' = [calls |-> 1, first |-> separateComponents(fnArgs.mask), second |-> None]
  /\ UNCHANGED <<isTrackingOn, cfgVars, pendingScans, observers, logicVars, scanPlanes,
                 pushed, cycle, reports, sessions, sends, fnArgs>>

\* the second call on the same mask
ApplyExtractorAgain ==
  /\ fnResult # None
  /\ fnResult.calls = 1
  /\ fnResult' = [fnResult EXCEPT !.calls = 2, !.second = separateComponents(fnArgs.mask)]
  /\ UNCHANGED <<isTrackingOn, cfgVars, pendingScans, observers, logicVars, scanPlanes,
                 pushed, cycle, reports, sessions, sends, fnArgs>>

NextExtractor == ApplyExtractor \/ ApplyExtractorAgain

SpecExtractor == InitExtractor /\ [][NextExtractor]_vars

(***************************************************************************)
(* Unit run of _apply_ema: a constant measurement fed to a fresh filter    *)
(***************************************************************************)
\* alpha over the slider's range (0, 1], measurements, tolerances
EmaAlphas == {<<1, 4>>, <<1, 2>>, <<3, 4>>, <<1, 1>>}
EmaMeasurements == {Vec(1, 2, 3), Vec(-40, 5, 60)}
EmaTolerances == {<<1, 10>>, <<1, 2>>, <<2, 1>>}

InitEma ==
  /\ ModuleLoaded
  /\ fnArgs \in [alpha : EmaAlphas, m : EmaMeasurements, eps : EmaTolerances]
  /\ fnResult = None

\* one call of _apply_ema with the measurement, the first one on the state
\* initializeTracking leaves
EmaStep ==
  /\ IF fnResult = None THEN TRUE ELSE fnResult.n < MaxEmaSteps
  /\ \E sm \in {_apply_ema_with(fnArgs.alpha, fnArgs.m,
                                IF fnResult = None THEN NoSmoothing ELSE fnResult.st)} :
       fnResult' = [n |-> IF fnResult = None THEN 1 ELSE fnResult.n + 1,
                    out |-> sm.out, st |-> sm.st]
  /\ UNCHANGED <<isTrackingOn, cfgVars, pendingScans, observers, logicVars, scanPlanes,
                 pushed, cycle, reports, sessions, sends, fnArgs>>

NextEma == EmaStep

SpecEma == InitEma /\ [][NextEma]_vars

(***************************************************************************)
(* Unit run of _apply_kf: a constant measurement fed to a fresh filter     *)
(***************************************************************************)
\* process noise q, measurement noise r (kf_r is an attribute a script
\* can set to 0; the slider offers 0.1 to 10), measurements
KfProcessNoises == {<<0, 1>>, <<1, 4>>, <<2, 1>>}
KfMeasNoises == {<<0, 1>>, <<1, 2>>, <<1, 1>>, <<10, 1>>}
KfMeasurements == {Vec(1, 2, 3), Vec(-40, 5, 60)}

InitKalman ==
  /\ ModuleLoaded
  /\ fnArgs \in [q : KfProcessNoises, r : KfMeasNoises, m : KfMeasurements]
  /\ fnResult = None

\* "S = H @ self._kf_P @ H.T + R" is diagonal (P couples no two axes), and
\* np.linalg.inv(S) raises LinAlgError exactly when a diagonal entry is zero
SingularS(r, st) == \E i \in 1..3 : RAdd(st.kf_P[i][1], r) = RZero

\* one call of _apply_kf with the measurement at a time not before the
\* previous call's, the first one on the state initializeTracking leaves.
\* When np.linalg.inv raises, the call ends there: the attributes keep what
\* _kf_predict assigned, _last_update_ts is not assigned, nothing is returned.
KalmanStep ==
  /\ IF fnResult = None THEN TRUE ELSE fnResult.n < MaxKfSteps
  /\ \E st \in {IF fnResult = None THEN NoSmoothing ELSE fnResult.st} :
     \E tnow \in Nows(st.last_update_ts) :
     \E pred \in {IF st.kf_initialized
                  THEN _kf_predict_with(fnArgs.q, fnArgs.r,
                                        IF st.last_update_ts # None
                                        THEN RMax(RZero, RSub(tnow, st.last_update_ts[1]))
                                        ELSE RZero, st)
                  ELSE st} :
       IF st.kf_initialized /\ SingularS(fnArgs.r, pred)
       THEN fnResult' = [n |-> fnResult.n + 1, out |-> None, st |-> pred,
                         raised |-> TRUE]
       ELSE \E sm \in {_apply_kf_with(fnArgs.q, fnArgs.r, fnArgs.m, tnow, st)} :
              fnResult' = [n |-> IF fnResult = None THEN 1 ELSE fnResult.n + 1,
                           out |-> sm.out, st |-> sm.st, raised |-> FALSE]
  /\ UNCHANGED <<isTrackingOn, cfgVars, pendingScans, observers, logicVars, scanPlanes,
                 pushed, cycle, reports, sessions, sends, fnArgs>>

NextKalman == KalmanStep

SpecKalman == InitKalman /\ [][NextKalman]_vars

(***************************************************************************)
(* Observer registration: initializeScans, addOrReplaceObserver and the    *)
(* removeObserver calls of stopTracking, over two sessions.                *)
(*                                                                         *)
(* The registry is the record                                              *)
(*   vtk   : per plane, how many observers on the plane's volume call its  *)
(*           receivedImagePlane callback                                   *)
(*   mixin : the planes VTKObservationMixin holds an observation for       *)
(*   tag   : per plane, the attribute _obsTag__receivedImagePlane<i>       *)
(*           ("unset", or the tag id stored with the node)                 *)
(* VTKObservationMixin.addObserver (slicer.util) adds nothing when it      *)
(* already holds the same (node, event, method) and returns None, so the   *)
(* stored tag id is None and the RemoveObserver of addOrReplaceObserver is *)
(* not reached; removeObserver removes the observation the mixin holds.    *)
(***************************************************************************)
\* the observer added whether or not the mixin already holds it
addOrReplaceObserver_append(reg, plane) ==
  [reg EXCEPT !.vtk[plane] = @ + 1, !.mixin = @ \cup {plane}, !.tag[plane] = "None"]

addOrReplaceObserver(reg, plane) ==
  LET removed == IF reg.tag[plane] \notin {"unset", "None"}
                 THEN [reg EXCEPT !.vtk[plane] = @ - 1]
                 ELSE reg
      added == IF plane \in removed.mixin
               THEN removed
               ELSE [removed EXCEPT !.vtk[plane] = @ + 1, !.mixin = @ \cup {plane}]
  IN  [added EXCEPT !.tag[plane] = "None"]

\* "if self.useScanPlanes[i] is True: self.removeObserver(...)" for i = 0, 1, 2
removeObservers(reg, use) ==
  [reg EXCEPT !.vtk = [p \in Planes |->
                         IF use[PlaneIdx(p)] /\ p \in reg.mixin THEN reg.vtk[p] - 1
                         ELSE reg.vtk[p]],
              !.mixin = {p \in reg.mixin : ~use[PlaneIdx(p)]}]

ObserverOrders ==
  {<<"COR", "SAG", "AX">>, <<"SAG", "COR">>, <<"AX", "XX", "AX">>, <<"COR", "COR", "SAG">>}
ObserverConfigs == [use : UseSets, order : ObserverOrders]

InitObservers ==
  /\ ModuleLoaded
  /\ fnArgs \in [first : ObserverConfigs, second : ObserverConfigs]
  /\ fnResult = [session |-> 0, on |-> FALSE, use |-> <<FALSE, FALSE, FALSE>>,
                 pending |-> <<>>,
                 vtk |-> [p \in Planes |-> 0], mixin |-> {},
                 tag |-> [p \in Planes |-> "unset"]]

\* startTracking: the session's check boxes and order text are read
ObserversStart ==
  /\ ~fnResult.on
  /\ fnResult.session < MaxSessions + MaxRestarts
  /\ \E cfg \in {IF fnResult.session = 0 THEN fnArgs.first ELSE fnArgs.second} :
       fnResult' = [fnResult EXCEPT !.session = @ + 1, !.on = TRUE, !.use = cfg.use,
                                    !.pending = cfg.order]
  /\ UNCHANGED <<isTrackingOn, cfgVars, pendingScans, observers, logicVars, scanPlanes,
                 pushed, cycle, reports, sessions, sends, fnArgs>>

\* one iteration of the loop of initializeScans
ObserversInitScan ==
  /\ fnResult.on
  /\ fnResult.pending # <<>>
  /\ \E h \in {Head(fnResult.pending)} :
       fnResult' = IF h \in Planes /\ fnResult.use[PlaneIdx(h)]
                   THEN [addOrReplaceObserver(fnResult, h)
                           EXCEPT !.pending = Tail(fnResult.pending)]
                   ELSE [fnResult EXCEPT !.pending = Tail(fnResult.pending)]
  /\ UNCHANGED <<isTrackingOn, cfgVars, pendingScans, observers, logicVars, scanPlanes,
                 pushed, cycle, reports, sessions, sends, fnArgs>>

\* stopTracking
ObserversStop ==
  /\ fnResult.on
  /\ fnResult.pending = <<>>
  /\ fnResult' = [removeObservers(fnResult, fnResult.use) EXCEPT !.on = FALSE]
  /\ UNCHANGED <<isTrackingOn, cfgVars, pendingScans, observers, logicVars, scanPlanes,
                 pushed, cycle, reports, sessions, sends, fnArgs>>

NextObservers ==
  \/ ObserversStart
  \/ ObserversInitScan
  \/ ObserversStop

SpecObservers == InitObservers /\ [][NextObservers]_vars

(***************************************************************************)
(* Unit run of initializeScanPlane on a plane node that holds a pose       *)
(***************************************************************************)
\* translations a plane node can hold before the call, and the coordinates
\* passed to it
PlaneTranslations == {Origin, Vec(7, 8, 9), Vec(-1, -2, 3)}
PlaneCoordinates == {Origin, Vec(7, 8, 9), Vec(4, 5, 6)}

InitScanPlane ==
  /\ ModuleLoaded
  /\ fnArgs \in [prev : PlaneTranslations, coordinates : PlaneCoordinates,
                 plane : Planes, sliceOnly : BOOLEAN]
  /\ fnResult = None

\* the matrix the call writes to the plane's transform node
ApplyInitializeScanPlane ==
  /\ fnResult = None
  /\ fnResult' = initializeScanPlane(fnArgs.coordinates, fnArgs.plane, fnArgs.sliceOnly)
  /\ UNCHANGED <<isTrackingOn, cfgVars, pendingScans, observers, logicVars, scanPlanes,
                 pushed, cycle, reports, sessions, sends, fnArgs>>

NextScanPlane == ApplyInitializeScanPlane

SpecScanPlane == InitScanPlane /\ [][NextScanPlane]_vars

(***************************************************************************)
(* TimestampTracker: the marks of the cycles of one session.  The tracker  *)
(* is the record of the lengths of its five lists, with the confidence the *)
(* last cycle returned and the number of the session.                      *)
(***************************************************************************)
StepNames == {"image_received", "image_prepared", "needle_segmented", "tip_tracked",
              "plan_updated"}

\* TimestampTracker.mark for each of the given steps
mark(timestamps, names) ==
  [n \in StepNames |-> timestamps[n] + (IF n \in names THEN 1 ELSE 0)]

\* the steps one completed cycle marks: image_received in the callback (or
\* in initializeScans), image_prepared, needle_segmented and tip_tracked in
\* logic.getNeedle, plan_updated in the widget's getNeedle either in the
\* "confidence is None" branch or inside "if self.updateScanPlane is True"
CycleMarks(confidence, updateOn) ==
  {"image_received", "image_prepared", "needle_segmented", "tip_tracked"}
  \cup (IF confidence = NoneConf \/ updateOn THEN {"plan_updated"} ELSE {})

InitTimestamps ==
  /\ ModuleLoaded
  /\ fnArgs \in [updateScanPlane : BOOLEAN, minTip : MinTipRange, minShaft : MinShaftRange]
  /\ fnResult = [session |-> 1, timestamps |-> [n \in StepNames |-> 0],
                 confidence |-> NoneConf]

\* one completed cycle of the session
TimedCycle ==
  /\ fnResult.timestamps["image_received"] < MaxCycles
  /\ \E det \in Detections :
     \E c \in {getConfidence(det, fnArgs.minTip, fnArgs.minShaft)} :
       fnResult' = [session |-> fnResult.session,
                    timestamps |-> mark(fnResult.timestamps,
                                        CycleMarks(c.confidence, fnArgs.updateScanPlane)),
                    confidence |-> c.confidence]
  /\ UNCHANGED <<isTrackingOn, cfgVars, pendingScans, observers, logicVars, scanPlanes,
                 pushed, cycle, reports, sessions, sends, fnArgs>>

\* stopTracking: "self.tracker.clear()", and the next session started
TimedStop ==
  /\ fnResult.timestamps["image_received"] > 0
  /\ fnResult.session < MaxSessions + MaxRestarts
  /\ fnResult' = [session |-> fnResult.session + 1,
                  timestamps |-> [n \in StepNames |-> 0], confidence |-> NoneConf]
  /\ UNCHANGED <<isTrackingOn, cfgVars, pendingScans, observers, logicVars, scanPlanes,
                 pushed, cycle, reports, sessions, sends, fnArgs>>

NextTimestamps ==
  \/ TimedCycle
  \/ TimedStop

SpecTimestamps == InitTimestamps /\ [][NextTimestamps]_vars

(***************************************************************************)
(* Properties                                                              *)
(***************************************************************************)
\* a step in which logic.getNeedle ran
CycleStep == img_counter' = img_counter + 1

\* the cycle's confidence met the session's threshold
MetThreshold(c) == c.found /\ c.confidence >= confidenceLevel

\* a plane other than `plane` has reported confidently this session
OtherReported(prev, plane) == \E o \in Planes \ {plane} : prev[PlaneIdx(o)] = "True"

Last(q) == q[Len(q)]

\* C1 (threshold gate): a cycle that has a detection whose confidence is
\* below the session's threshold leaves the tracked position as it was, on
\* every axis.
C1_ThresholdGate ==
  [][(CycleStep /\ cycle'.found /\ cycle'.confidence < confidenceLevel)
       => tipTracked' = tipTracked]_vars

\* C1 witness: a below-threshold detection arrived after the tracked tip had
\* been set, at a point other than the tracked one
C1_Witness ==
  /\ cycle.plane \in Planes
  /\ cycle.found
  /\ cycle.confidence < confidenceLevel
  /\ reports # <<>>
  /\ tipSegm # tipTracked

\* C2 (fusion axis isolation), as claimed: under every smoothing setting, a
\* confident cycle from plane P, run when another plane has already
\* reported confidently, leaves the tracked coordinate of P's through-plane
\* axis as it was.
C2_AxisIsolation ==
  [][(CycleStep /\ MetThreshold(cycle') /\ OtherReported(prevDetection, cycle'.plane))
       => tipTracked'[ThroughAxis(cycle'.plane)] = tipTracked[ThroughAxis(cycle'.plane)]]_vars

\* C3 (in-plane writes): with smoothing disabled, after a confident cycle
\* from plane P with candidate RAS point p the two in-plane coordinates of
\* the tracked position equal p's, whatever the other planes have reported.
C3_InPlaneWrites ==
  [][(CycleStep /\ ~smoothingEnabled /\ MetThreshold(cycle'))
       => \A a \in InPlaneAxes(cycle'.plane) : tipTracked'[a] = cycle'.centerRAS[a]]_vars

\* C3 witness: an unsmoothed confident cycle ran after another plane had
\* reported a different point
C3_Witness ==
  /\ ~smoothingEnabled
  /\ MetThreshold(cycle)
  /\ Len(reports) >= 2
  /\ reports[Len(reports) - 1].plane # Last(reports).plane
  /\ reports[Len(reports) - 1].centerRAS # Last(reports).centerRAS

\* C4 (through-plane write), as claimed: with smoothing disabled, a
\* confident cycle from P run when no other plane has reported sets the
\* through-plane coordinate to the candidate's, so the first confident
\* report of a session determines all three coordinates.
C4_ThroughPlaneWrite ==
  [][(CycleStep /\ ~smoothingEnabled /\ MetThreshold(cycle')
        /\ ~OtherReported(prevDetection, cycle'.plane))
       => tipTracked'[ThroughAxis(cycle'.plane)]
            = cycle'.centerRAS[ThroughAxis(cycle'.plane)]]_vars

\* the candidate lies half a slice thickness or more from the image centre
\* along axis a
OffSlice(c, a) ==
  RGeq(RMul(R(2), RAbs(RSub(c.image.center[a], c.centerRAS[a]))), c.image.thickness)

\* C4, amended: with smoothing disabled, a confident cycle from P sets the
\* through-plane coordinate to the candidate's exactly when no other plane
\* has reported and the candidate lies at least half a slice thickness from
\* the image centre along that axis; otherwise the coordinate keeps its
\* value.
C4_ThroughPlaneWriteOffSlice ==
  [][(CycleStep /\ ~smoothingEnabled /\ MetThreshold(cycle'))
       => LET a == ThroughAxis(cycle'.plane)
          IN  tipTracked'[a] =
                IF ~OtherReported(prevDetection, cycle'.plane) /\ OffSlice(cycle', a)
                THEN cycle'.centerRAS[a]
                ELSE tipTracked[a]]_vars

\* C4 witness: the first confident report of an unsmoothed session left the
\* through-plane coordinate at its start value
C4_Witness ==
  /\ ~smoothingEnabled
  /\ Len(reports) = 1
  /\ MetThreshold(cycle)
  /\ ~OffSlice(cycle, ThroughAxis(cycle.plane))
  /\ tipTracked[ThroughAxis(cycle.plane)] # cycle.centerRAS[ThroughAxis(cycle.plane)]

\* C5 (fixed sequence): in a session with all three planes active and
\* smoothing disabled whose confident reports are COR(p1), SAG(p2), AX(p3)
\* in that order, the tracked position is (LR p1, AP p2, IS p2) after the
\* second and (LR p3, AP p3, IS p2) after the third; SAG and AX leave their
\* through-plane coordinate as the previous report left it.
C5_FixedSequence ==
  (/\ ~smoothingEnabled
   /\ useScanPlanes = <<TRUE, TRUE, TRUE>>
   /\ Len(reports) >= 2
   /\ reports[1].plane = "COR"
   /\ reports[2].plane = "SAG")
    => /\ reports[2].tracked = <<reports[1].centerRAS[1], reports[2].centerRAS[2],
                                 reports[2].centerRAS[3]>>
       /\ reports[2].tracked[1] = reports[1].tracked[1]
       /\ (Len(reports) >= 3 /\ reports[3].plane = "AX")
            => /\ reports[3].tracked = <<reports[3].centerRAS[1], reports[3].centerRAS[2],
                                         reports[2].centerRAS[3]>>
               /\ reports[3].tracked[3] = reports[2].tracked[3]

\* C5 witness: the three reports arrived, consecutive points differing
C5_Witness ==
  /\ ~smoothingEnabled
  /\ useScanPlanes = <<TRUE, TRUE, TRUE>>
  /\ Len(reports) = 3
  /\ <<reports[1].plane, reports[2].plane, reports[3].plane>> = <<"COR", "SAG", "AX">>
  /\ reports[1].centerRAS # reports[2].centerRAS
  /\ reports[2].centerRAS # reports[3].centerRAS
  /\ tipTracked = reports[3].tracked

\* C6 (no detection): a cycle whose frame yields neither a tip nor a shaft
\* component reports confidence None, leaves the tracked position, the
\* prevDetection flags and the smoothing state as they were, and leaves the
\* session tracking with the plane's observer in place.
C6_NoDetection ==
  [][(CycleStep /\ ~cycle'.found)
       => /\ cycle'.confidence = NoneConf
          /\ tipTracked' = tipTracked
          /\ prevDetection' = prevDetection
          /\ smooth' = smooth
          /\ isTrackingOn'
          /\ cycle'.plane \in observers']_vars

\* C6 witness: an empty frame arrived in a session that had a tracked tip
\* and a running filter
C6_Witness ==
  /\ cycle.plane \in Planes
  /\ ~cycle.found
  /\ reports # <<>>
  /\ smooth # NoSmoothing
  /\ isTrackingOn

\* C7 (smoothing gated): a cycle whose confidence does not meet the
\* threshold, a below-threshold one or one without detection, leaves the
\* filter state as it was.
C7_SmoothingGated ==
  [][(CycleStep /\ ~MetThreshold(cycle')) => smooth' = smooth]_vars

\* C7 witness: a below-threshold detection arrived while a filter was
\* running
C7_Witness ==
  /\ smoothingEnabled
  /\ smooth # NoSmoothing
  /\ cycle.plane \in Planes
  /\ cycle.found
  /\ cycle.confidence < confidenceLevel
  /\ tipSegm # tipTracked

\* the planes whose pose the last step pushed
PushedPlanes == {pushed[i].node : i \in 1..Len(pushed)} \cap Planes

\* the active planes other than `plane`
OtherActive(plane) == {q \in Planes \ {plane} : useScanPlanes[PlaneIdx(q)]}

\* C8 (scan-plane fan-out): a cycle from plane P never changes P's own pose
\* nor the pose of an inactive plane; when updating is enabled and the
\* confidence meets the threshold, the poses pushed are exactly those of the
\* other active planes, each brought to the tracked tip's coordinate on its
\* through-plane axis.
C8_FanOut ==
  [][CycleStep
       => /\ scanPlanes'[cycle'.plane] = scanPlanes[cycle'.plane]
          /\ \A q \in Planes : ~useScanPlanes[PlaneIdx(q)] => scanPlanes'[q] = scanPlanes[q]
          /\ (updateScanPlaneOn /\ MetThreshold(cycle'))
               => /\ PushedPlanes' = OtherActive(cycle'.plane)
                  /\ \A q \in OtherActive(cycle'.plane) :
                       scanPlanes'[q].trans[ThroughAxis(q)] = tipTracked'[ThroughAxis(q)]]_vars

\* C8 witness: a confident cycle with updating enabled moved the one other
\* active plane while the reporting plane and an inactive plane that had
\* been placed by hand stayed where they were
C8_Witness ==
  /\ updateScanPlaneOn
  /\ MetThreshold(cycle)
  /\ Cardinality(OtherActive(cycle.plane)) = 1
  /\ PushedPlanes = OtherActive(cycle.plane)
  /\ scanPlanes[cycle.plane].trans = Origin
  /\ \E q \in Planes : ~useScanPlanes[PlaneIdx(q)] /\ scanPlanes[q].trans \in SendCoords

\* C9 (update modes): a scan-plane update of plane Q sets, in slice-only
\* mode, only Q's through-plane translation coordinate to the tracked
\* tip's and leaves the two in-plane ones as they were, and in full
\* re-center mode sets all three to the tracked tip's.
C9_UpdateModes ==
  [][(CycleStep /\ updateScanPlaneOn /\ MetThreshold(cycle'))
       => \A q \in OtherActive(cycle'.plane) :
            IF centerScanAtTip
            THEN scanPlanes'[q].trans = tipTracked'
            ELSE /\ scanPlanes'[q].trans[ThroughAxis(q)] = tipTracked'[ThroughAxis(q)]
                 /\ \A a \in InPlaneAxes(q) :
                      scanPlanes'[q].trans[a] = scanPlanes[q].trans[a]]_vars

\* C9 witness: a slice-only update moved a plane that had been placed by
\* hand along its through-plane axis and kept its in-plane coordinates
C9_Witness ==
  /\ updateScanPlaneOn
  /\ ~centerScanAtTip
  /\ MetThreshold(cycle)
  /\ \E q \in PushedPlanes :
       /\ scanPlanes[q].trans[ThroughAxis(q)] = tipTracked[ThroughAxis(q)]
       /\ \A a \in InPlaneAxes(q) :
            /\ scanPlanes[q].trans[a] # tipTracked[a]
            /\ \E c \in SendCoords : scanPlanes[q].trans[a] = c[a]

\* C10 (updates gated on confidence): a cycle changes or pushes no plane
\* pose when its confidence is below the threshold, when it has no
\* detection, or when updating is disabled; each confident cycle with
\* updating enabled pushes each other active plane exactly once and no
\* other plane.
C10_UpdatesGated ==
  [][CycleStep
       => IF updateScanPlaneOn /\ MetThreshold(cycle')
          THEN \A q \in Planes :
                 Cardinality({i \in 1..Len(pushed') : pushed'[i].node = q})
                   = IF q \in OtherActive(cycle'.plane) THEN 1 ELSE 0
          ELSE scanPlanes' = scanPlanes /\ PushedPlanes' = {}]_vars

\* C10 witness: with updating enabled and another plane active, a
\* below-threshold detection arrived after the tip had been tracked and
\* moved no plane
C10_Witness ==
  /\ updateScanPlaneOn
  /\ cycle.plane \in Planes
  /\ cycle.found
  /\ cycle.confidence < confidenceLevel
  /\ reports # <<>>
  /\ OtherActive(cycle.plane) # {}
  /\ PushedPlanes = {}
  /\ tipSegm # tipTracked

\* C11 (plane rotation fixed): whatever session starts, cycles, scan-plane
\* updates and manual plane sends have happened, the 3x3 rotation of COR is
\* [[1,0,0],[0,0,-1],[0,1,0]], of SAG [[0,0,1],[0,1,0],[-1,0,0]] and of AX
\* the identity.
C11_RotationFixed ==
  /\ scanPlanes["COR"].rot = <<<<1, 0, 0>>, <<0, 0, -1>>, <<0, 1, 0>>>>
  /\ scanPlanes["SAG"].rot = <<<<0, 0, 1>>, <<0, 1, 0>>, <<-1, 0, 0>>>>
  /\ scanPlanes["AX"].rot = <<<<1, 0, 0>>, <<0, 1, 0>>, <<0, 0, 1>>>>

\* C11 witness: one plane has been placed by hand and another moved by a
\* confident cycle
C11_Witness ==
  /\ sends > 0
  /\ MetThreshold(cycle)
  /\ \E q \in PushedPlanes : scanPlanes[q].trans # Origin
  /\ \E q \in Planes \ PushedPlanes : scanPlanes[q].trans \in SendCoords

\* a step in which stopTracking / startTracking ran
StopStep == isTrackingOn /\ ~isTrackingOn'
StartStep == ~isTrackingOn /\ isTrackingOn'

\* the tracked tip, the reported-plane flags and the filter state as
\* initializeTracking leaves them
TrackingReset(tracked, prev, sm) ==
  /\ tracked = <<<<0, 1>>, <<0, 1>>, <<0, 1>>>>
  /\ \A i \in 1..3 : prev[i] # "True"
  /\ sm.emaPos = <<>> /\ ~sm.kf_initialized /\ sm.kf_x = <<>> /\ sm.kf_P = <<>>
  /\ sm.last_update_ts = <<>>

C13_FreshStart ==
  (isTrackingOn /\ cycle = NoCycle)
    => /\ tipTracked = <<<<0, 1>>, <<0, 1>>, <<0, 1>>>>
       /\ tipSegm = <<<<0, 1>>, <<0, 1>>, <<0, 1>>>>
       /\ \A i \in 1..3 : prevDetection[i] = IF useScanPlanes[i] THEN "False" ELSE "None"
       /\ smooth = [emaPos |-> <<>>, kf_initialized |-> FALSE, kf_x |-> <<>>,
                    kf_P |-> <<>>, last_update_ts |-> <<>>]
       /\ img_counter = 0

\* C13 witness: a second session has started, with another plane set, after
\* a session whose last frame was tracked confidently and moved a plane
C13_Witness ==
  /\ sessions = 2
  /\ isTrackingOn
  /\ cycle = NoCycle
  /\ needleConfidence >= 3
  /\ \E p \in Planes : scanPlanes[p].trans # Origin /\ ~useScanPlanes[PlaneIdx(p)]

AbortedStep == img_counter' = img_counter + 1 /\ ~cycle'.returned

\* tracked tip, detection flags and smoothing state as a completed cycle of
\* the plane leaves them
CompletedCycle(plane, det, img, tnow) ==
  LET c == getConfidence(det, minTipSize, minShaftSize)
      centerRAS == ToRAS(c.tip_center)
      confident == c.confidence # NoneConf /\ TipGate(c.confidence, confidenceLevel)
      sm == smoothTip(FuseTip(plane, tipTracked, prevDetection, centerRAS, img),
                      tnow, smoothingEnabled, smoothingMethod, smooth)
  IN  IF confident
      THEN <<sm.out, MarkDetection(prevDetection, plane), sm.st>>
      ELSE <<tipTracked, prevDetection, smooth>>

DecisionTable ==
  <<[tip |-> {FALSE}, shaft |-> {FALSE}, connected |-> BOOLEAN, bigTip |-> BOOLEAN,
     bigShaft |-> BOOLEAN, confidence |-> NoneConf, source |-> "none"],
    [tip |-> {FALSE}, shaft |-> {TRUE}, connected |-> BOOLEAN, bigTip |-> BOOLEAN,
     bigShaft |-> {TRUE}, confidence |-> 2, source |-> "shaft"],
    [tip |-> {FALSE}, shaft |-> {TRUE}, connected |-> BOOLEAN, bigTip |-> BOOLEAN,
     bigShaft |-> {FALSE}, confidence |-> 1, source |-> "shaft"],
    [tip |-> {TRUE}, shaft |-> {FALSE}, connected |-> BOOLEAN, bigTip |-> {TRUE},
     bigShaft |-> BOOLEAN, confidence |-> 3, source |-> "tip"],
    [tip |-> {TRUE}, shaft |-> {FALSE}, connected |-> BOOLEAN, bigTip |-> {FALSE},
     bigShaft |-> BOOLEAN, confidence |-> 1, source |-> "tip"],
    [tip |-> {TRUE}, shaft |-> {TRUE}, connected |-> {TRUE}, bigTip |-> {TRUE},
     bigShaft |-> BOOLEAN, confidence |-> 5, source |-> "tip"],
    [tip |-> {TRUE}, shaft |-> {TRUE}, connected |-> {TRUE}, bigTip |-> {FALSE},
     bigShaft |-> {TRUE}, confidence |-> 4, source |-> "tip"],
    [tip |-> {TRUE}, shaft |-> {TRUE}, connected |-> {TRUE}, bigTip |-> {FALSE},
     bigShaft |-> {FALSE}, confidence |-> 3, source |-> "tip"],
    [tip |-> {TRUE}, shaft |-> {TRUE}, connected |-> {FALSE}, bigTip |-> {TRUE},
     bigShaft |-> BOOLEAN, confidence |-> 3, source |-> "tip"],
    [tip |-> {TRUE}, shaft |-> {TRUE}, connected |-> {FALSE}, bigTip |-> {FALSE},
     bigShaft |-> {TRUE}, confidence |-> 2, source |-> "shaft"],
    [tip |-> {TRUE}, shaft |-> {TRUE}, connected |-> {FALSE}, bigTip |-> {FALSE},
     bigShaft |-> {FALSE}, confidence |-> 1, source |-> "tip"]>>

RowMatches(row, a) ==
  /\ a.det.tip \in row.tip
  /\ a.det.shaft \in row.shaft
  /\ a.det.connected \in row.connected
  /\ (a.det.tip_size >= a.minTip) \in row.bigTip
  /\ (a.det.shaft_size >= a.minShaft) \in row.bigShaft

\* the first row of the table that matches the arguments
FirstRow(a) ==
  DecisionTable[CHOOSE i \in 1..Len(DecisionTable) :
                  /\ RowMatches(DecisionTable[i], a)
                  /\ \A j \in 1..(i - 1) : ~RowMatches(DecisionTable[j], a)]

\* C17 (decision table): for every combination of tip, shaft, connected
\* and the two size tests some row of the table matches, and the classifier
\* returns the first matching row's confidence and takes the point from
\* that row's source (tip centroid, shaft skeleton extremity, or none).
C17_DecisionTable ==
  fnResult # None =>
    /\ \E i \in 1..Len(DecisionTable) : RowMatches(DecisionTable[i], fnArgs)
    /\ fnResult.confidence = FirstRow(fnArgs).confidence
    /\ FirstRow(fnArgs).source = "tip" => fnResult.tip_center = fnArgs.det.tip_center
    /\ FirstRow(fnArgs).source = "shaft" => fnResult.tip_center = fnArgs.det.shaft_tip

\* C17 witness: the spec's scenario with the shaft below a threshold of 20
\* (no tip, shaft size 15): rated Low at the shaft skeleton extremity
C17_Witness ==
  /\ fnResult # None
  /\ ~fnArgs.det.tip
  /\ fnArgs.det.shaft_size = 15
  /\ fnArgs.minShaft = 20
  /\ fnResult.confidence = 1
  /\ fnResult.tip_center = fnArgs.det.shaft_tip

\* C18 (monotonic confidence): with the shaft situation and the thresholds
\* fixed, a present tip of size >= minTip is rated no lower than a present
\* tip of any size < minTip.
C18_Monotonic ==
  (fnResult # None /\ fnArgs.det.tip /\ fnArgs.det.tip_size >= fnArgs.minTip) =>
    \A small \in 1..(fnArgs.minTip - 1) :
      getConfidence([fnArgs.det EXCEPT !.tip_size = small], fnArgs.minTip,
                    fnArgs.minShaft).confidence <= fnResult.confidence

\* C18 witness: a large tip connected to a large shaft is rated High, where
\* the small tip would be rated Medium High
C18_Witness ==
  /\ fnResult # None
  /\ fnArgs.det.tip /\ fnArgs.det.shaft /\ fnArgs.det.connected
  /\ fnArgs.det.tip_size >= fnArgs.minTip
  /\ fnArgs.det.shaft_size >= fnArgs.minShaft
  /\ fnResult.confidence = 5

\* the second-largest component of a list exists and meets the minimum
Retained2(dict, minSize) == Len(dict) > 1 /\ dict[2].size >= minSize

\* the fallback pairs in the claimed order, as <<tip rank, shaft rank>>,
\* without the pairs whose alternate was not retained
FallbackPairs(a) ==
  SelectSeq(<<<<1, 2>>, <<2, 1>>, <<2, 2>>>>,
            LAMBDA p : /\ p[1] = 2 => Retained2(a.tip_dict, a.minTip)
                       /\ p[2] = 2 => Retained2(a.shaft_dict, a.minShaft))

\* the labels of a pair of ranks, and whether the pair is adjacent
PairLabels(a, p) == <<a.tip_dict[p[1]].label, a.shaft_dict[p[2]].label>>
PairAdjacent(a, p) == PairLabels(a, p) \in a.adjacent

\* the result selects the components of the given ranks
Selects(a, r, p) ==
  /\ r.tip_label = a.tip_dict[p[1]].label
  /\ r.tip_size = a.tip_dict[p[1]].size
  /\ r.tip_center = a.tip_dict[p[1]].centroid
  /\ r.shaft_label = a.shaft_dict[p[2]].label
  /\ r.shaft_size = a.shaft_dict[p[2]].size

\* C19 (fallback search order): with tip1 and shaft1 present and not
\* adjacent, the pairs (tip1,shaft2), (tip2,shaft1), (tip2,shaft2) whose
\* alternate is retained are tested in that order up to and including the
\* first adjacent one, which becomes the selection with its size and
\* centroid; if none is adjacent the result is tip1/shaft1, not connected.
C19_FallbackOrder ==
  (/\ fnResult # None
   /\ fnArgs.tip_dict # <<>>
   /\ fnArgs.shaft_dict # <<>>
   /\ ~PairAdjacent(fnArgs, <<1, 1>>)) =>
    LET pairs == FallbackPairs(fnArgs)
        hits == {i \in 1..Len(pairs) : PairAdjacent(fnArgs, pairs[i])}
        last == IF hits = {} THEN Len(pairs)
                ELSE CHOOSE i \in hits : \A j \in hits : i <= j
    IN  /\ fnResult.tested
             = <<PairLabels(fnArgs, <<1, 1>>)>>
               \o [i \in 1..last |-> PairLabels(fnArgs, pairs[i])]
        /\ fnResult.connected = (hits # {})
        /\ Selects(fnArgs, fnResult, IF hits = {} THEN <<1, 1>> ELSE pairs[last])

\* C19 witness: both alternates retained, (tip1,shaft2) not adjacent,
\* (tip2,shaft1) and (tip2,shaft2) both adjacent: tip2/shaft1 is selected
\* and (tip2,shaft2) is not tested
C19_Witness ==
  /\ fnResult # None
  /\ Retained2(fnArgs.tip_dict, fnArgs.minTip)
  /\ Retained2(fnArgs.shaft_dict, fnArgs.minShaft)
  /\ ~PairAdjacent(fnArgs, <<1, 1>>)
  /\ ~PairAdjacent(fnArgs, <<1, 2>>)
  /\ PairAdjacent(fnArgs, <<2, 1>>)
  /\ PairAdjacent(fnArgs, <<2, 2>>)
  /\ Selects(fnArgs, fnResult, <<2, 1>>)
  /\ Len(fnResult.tested) = 3

\* C20 (alternate retention): the second-largest tip is selected only if its
\* size is >= minTip and the second-largest shaft only if its size is
\* >= minShaft; the selection and every adjacency test involve only the two
\* largest components of each class; with only one of tip/shaft present no
\* adjacency test is made and connected is false.
C20_AlternateRetention ==
  fnResult # None =>
    LET a == fnArgs
        r == fnResult
        top(dict) == {dict[i].label : i \in {k \in 1..Len(dict) : k <= 2}}
    IN  /\ (Len(a.tip_dict) > 1 /\ r.tip_label = a.tip_dict[2].label)
             => a.tip_dict[2].size >= a.minTip
        /\ (Len(a.shaft_dict) > 1 /\ r.shaft_label = a.shaft_dict[2].label)
             => a.shaft_dict[2].size >= a.minShaft
        /\ r.tip_label \in top(a.tip_dict) \cup {NoLabel}
        /\ r.shaft_label \in top(a.shaft_dict) \cup {NoLabel}
        /\ \A i \in 1..Len(r.tested) :
             r.tested[i][1] \in top(a.tip_dict) /\ r.tested[i][2] \in top(a.shaft_dict)
        /\ (a.tip_dict = <<>> \/ a.shaft_dict = <<>>) => r.tested = <<>> /\ ~r.connected

\* C20 witness: a second tip below minTip and a third tip both touch
\* shaft1 while tip1 does not: tip1 stays selected, not connected
C20_Witness ==
  /\ fnResult # None
  /\ Len(fnArgs.tip_dict) = 3
  /\ fnArgs.shaft_dict # <<>>
  /\ fnArgs.tip_dict[2].size < fnArgs.minTip
  /\ ~PairAdjacent(fnArgs, <<1, 1>>)
  /\ PairAdjacent(fnArgs, <<2, 1>>)
  /\ PairAdjacent(fnArgs, <<3, 1>>)
  /\ Selects(fnArgs, fnResult, <<1, 1>>)
  /\ ~fnResult.connected

\* C21 (component extraction): an all-background mask gives None; otherwise
\* the list holds each connected component of the mask exactly once, with
\* its pixel count, larger components first and components of equal size in
\* ascending label order; a second call on the same mask returns the same.
C21_Extraction ==
  fnResult # None =>
    LET mask == fnArgs.mask
        d == fnResult.first
        image == ConnectedComponent(mask)
        ids == {image[i] : i \in 1..Len(image)} \ {0}
    IN  /\ (\A i \in 1..Len(mask) : mask[i] = 0) <=> d = None
        /\ Len(d) = Cardinality(ids)
        /\ \A l \in ids : \E k \in 1..Len(d) :
             /\ d[k].label = l
             /\ d[k].size = Cardinality({i \in 1..Len(image) : image[i] = l})
        /\ \A i \in 1..Len(d), j \in 1..Len(d) :
             i < j => \/ d[i].size > d[j].size
                      \/ d[i].size = d[j].size /\ d[i].label < d[j].label
        /\ fnResult.calls = 2 => fnResult.second = d

\* C21 witness: a mask with two components of equal size and a larger one
\* after them has been extracted twice
C21_Witness ==
  /\ fnResult # None
  /\ fnResult.calls = 2
  /\ Len(fnResult.first) = 3
  /\ fnResult.first[1].label = 3
  /\ fnResult.first[2].size = fnResult.first[3].size
  /\ fnResult.first[2].label = 1

\* C22 (world-frame conversion): every cycle with a detection, confident or
\* not, sets the segmented tip to (-x, -y, z) of the image-space point the
\* classifier chose; a cycle without detection leaves the segmented tip.
C22_WorldFrame ==
  [][CycleStep =>
       IF cycle'.confidence # NoneConf
       THEN tipSegm' = <<RSub(RZero, cycle'.tip_center[1]),
                         RSub(RZero, cycle'.tip_center[2]),
                         cycle'.tip_center[3]>>
       ELSE tipSegm' = tipSegm]_vars

\* C22 witness: a detection below the threshold has moved the segmented tip
\* to the negated point while the tracked tip is still at the origin
C22_Witness ==
  /\ cycle.confidence # NoneConf
  /\ cycle.confidence < confidenceLevel
  /\ cycle.tip_center = <<<<1, 1>>, <<2, 1>>, <<3, 1>>>>
  /\ tipSegm = <<<<-1, 1>>, <<-2, 1>>, <<3, 1>>>>
  /\ tipTracked = <<<<0, 1>>, <<0, 1>>, <<0, 1>>>>

\* C23 (EMA update rule): with EMA smoothing enabled, the first confident
\* cycle of a session stores the fused position as the EMA state and writes
\* it unchanged; every later confident cycle sets, on each axis,
\* state = alpha * measurement + (1 - alpha) * state and writes the new state.
C23_EmaRule ==
  [][(CycleStep /\ MetThreshold(cycle') /\ smoothingEnabled /\ smoothingMethod = "EMA") =>
       LET m == FuseTip(cycle'.plane, tipTracked, prevDetection, cycle'.centerRAS,
                        cycle'.image)
       IN  /\ smooth'.emaPos
                = IF reports = <<>>
                  THEN m
                  ELSE [i \in 1..3 |->
                          RAdd(RMul(emaAlpha, m[i]),
                               RMul(RSub(ROne, emaAlpha), smooth.emaPos[i]))]
           /\ tipTracked' = smooth'.emaPos]_vars

\* C23 witness: in a second session under EMA, a second confident cycle has
\* blended a measurement into a state that differs from it
C23_Witness ==
  /\ sessions = 2
  /\ smoothingEnabled /\ smoothingMethod = "EMA"
  /\ Len(reports) = 2
  /\ reports[2].tracked # reports[1].tracked
  /\ tipTracked = smooth.emaPos
  /\ tipTracked # tipSegm

RECURSIVE RPow(_, _)
RPow(x, n) == IF n = 0 THEN ROne ELSE RMul(x, RPow(x, n - 1))

\* C24 (EMA convergence): with a constant measurement m fed to a fresh
\* filter, after every step n >= ceil(ln(eps) / ln(1 - alpha)), that is
\* every step n >= 1 with (1 - alpha)^n <= eps, the state is within eps of
\* m on each axis.
C24_EmaConvergence ==
  (fnResult # None /\ RGeq(fnArgs.eps, RPow(RSub(ROne, fnArgs.alpha), fnResult.n))) =>
    \A i \in 1..3 :
      /\ RGeq(fnArgs.eps, RAbs(RSub(fnResult.st.emaPos[i], fnArgs.m[i])))
      /\ RGeq(fnArgs.eps, RAbs(RSub(fnResult.out[i], fnArgs.m[i])))

\* C24 witness: alpha 1/4 and tolerance 1/2 give the step bound 3; the
\* third step has been taken and the state equals the measurement
C24_Witness ==
  /\ fnResult # None
  /\ fnArgs.alpha = <<1, 4>>
  /\ fnArgs.eps = <<1, 2>>
  /\ fnResult.n = 3
  /\ fnResult.st.emaPos = fnArgs.m

\* C25 (Kalman no-motion stability): with a constant measurement fed to a
\* fresh filter, for each q, each r > 0 and each sequence of non-negative
\* time steps, the output position equals the measurement and the velocity
\* estimate is zero after every call, so both converge.
C25_KalmanNoMotion ==
  fnResult # None /\ fnArgs.r # RZero =>
    /\ fnResult.out = fnArgs.m
    /\ \A i \in 1..3 : fnResult.st.kf_x[i] = fnArgs.m[i]
    /\ \A i \in 4..6 : fnResult.st.kf_x[i] = <<0, 1>>

\* C25 witness: the third call, after time has advanced, with the position
\* variance reduced below its initial value by the updates
C25_Witness ==
  /\ fnResult # None
  /\ fnArgs.r # RZero
  /\ fnResult.n = 3
  /\ fnResult.st.last_update_ts # <<<<0, 1>>>>
  /\ fnResult.st.kf_P[1][1] # <<10, 1>>
  /\ fnResult.out = fnArgs.m

\* what the cycle that just ran handed to the OpenIGTLink client
Delivered(node, data) ==
  \E i \in 1..Len(pushed') : pushed'[i] = [node |-> node, data |-> data]

\* C26 (output per cycle): every cycle, whatever its outcome, leaves its own
\* confidence in the confidence node and, when the tip is pushed to the
\* robot, sends the current tracked tip and that confidence to the client.
C26_OutputEveryCycle ==
  [][img_counter' = img_counter + 1 =>
       /\ needleConfidence' = cycle'.confidence
       /\ pushTipToRobot =>
            /\ Delivered("CurrentTrackedTip", tipTracked')
            /\ Delivered("CurrentTipConfidence", <<R(cycle'.confidence)>>)]_vars

InputAbortedStep == AbortedStep /\ cycle'.confidence = NoneConf

\* C28 (malformed input): a cycle that fails on its input still returns an
\* outcome to its caller and leaves the tracked tip, the previous-detection
\* flags, the smoothing state and the plane poses as they were.
C28_InvalidInputOutcome ==
  [][InputAbortedStep =>
       /\ cycle'.returned
       /\ UNCHANGED <<tipTracked, prevDetection, smooth, scanPlanes>>]_vars

\* C29 (configuration errors): a session whose confidence threshold is not
\* one of 1..5 does not start: tracking is off, no image observer is
\* registered and no cycle has run.
C29_ConfigRejected ==
  confidenceLevel \notin 1..5 =>
    /\ ~isTrackingOn
    /\ observers = {}
    /\ img_counter = 0

\* the planes whose previous-detection flag is True
Flagged(prev) == {p \in Planes : prev[PlaneIdx(p)] = "True"}

\* a step in which a cycle of the plane ran and met the threshold
ConfidentCycleOf(p) ==
  /\ img_counter' = img_counter + 1
  /\ cycle'.plane = p
  /\ cycle'.confidence # NoneConf
  /\ cycle'.confidence >= confidenceLevel

\* C30 (flags monotone within a session): a plane's flag becomes True only
\* in a cycle of that plane whose confidence meets the threshold; a True
\* flag stays True in every step but a session start; and in a confident
\* cycle after which two planes are flagged, the point handed to smoothing
\* keeps the tracked through-plane coordinate of the reporting plane.
C30_FlagsMonotone ==
  [][/\ \A p \in Planes :
          /\ (p \notin Flagged(prevDetection) /\ p \in Flagged(prevDetection'))
               => ConfidentCycleOf(p)
          /\ (p \in Flagged(prevDetection) /\ p \notin Flagged(prevDetection'))
               => sessions' = sessions + 1
          /\ (ConfidentCycleOf(p) /\ Cardinality(Flagged(prevDetection')) >= 2)
               => FuseTip(p, tipTracked, prevDetection, cycle'.centerRAS,
                          cycle'.image)[ThroughAxis(p)]
                    = tipTracked[ThroughAxis(p)]]_vars

\* two planes have reported confidently, and a third confident cycle found
\* the tip off the slice of its image
C30_Witness ==
  /\ Len(reports) >= 3
  /\ reports[1].plane # reports[2].plane
  /\ Cardinality(Flagged(prevDetection)) >= 2
  /\ cycle.returned
  /\ cycle.confidence >= confidenceLevel
  /\ cycle.plane = reports[Len(reports)].plane
  /\ SliceChanged(cycle.image, cycle.centerRAS, ThroughAxis(cycle.plane))

\* the position estimate the session's filter holds (None: not initialised)
FilterPosition ==
  IF smoothingMethod = "Kalman"
  THEN IF smooth.kf_initialized
       THEN <<smooth.kf_x[1], smooth.kf_x[2], smooth.kf_x[3]>>
       ELSE None
  ELSE smooth.emaPos

\* C31 (tracked position and filter agree): while smoothing is enabled and
\* the filter of the session's method has been initialised, the tracked tip
\* equals the filter's position estimate.
C31_TrackedIsFilter ==
  (smoothingEnabled /\ FilterPosition # None) => tipTracked = FilterPosition

\* a third confident cycle of a session moved the filter off its measurement
C31_Witness ==
  /\ smoothingEnabled
  /\ FilterPosition # None
  /\ Len(reports) >= 3
  /\ cycle.returned
  /\ cycle.confidence >= confidenceLevel
  /\ tipTracked # cycle.centerRAS
  /\ tipTracked # reports[1].tracked

\* tracked and segmented tip, flags, smoothing state, plane poses and image
\* counter are as before and nothing was pushed
NothingHappened ==
  /\ UNCHANGED <<tipTracked, tipSegm, prevDetection, smooth, scanPlanes, img_counter>>
  /\ pushed' = <<>>

\* C32 (nothing happens while tracking is off): a step taken while tracking
\* is off and stays off changes no tracking state and pushes nothing; and a
\* step of a running session after its initial scans either is a cycle of an
\* active plane or changes no tracking state and pushes nothing.
C32_IdleWhenOff ==
  [][/\ (~isTrackingOn /\ ~isTrackingOn') => NothingHappened
     /\ (isTrackingOn /\ isTrackingOn' /\ pendingScans = <<>>) =>
          \/ NothingHappened
          \/ /\ img_counter' = img_counter + 1
             /\ useScanPlanes[PlaneIdx(cycle'.plane)]]_vars

\* a callback that did nothing ran after a cycle that had pushed the tip
C32_Witness ==
  /\ isTrackingOn
  /\ pendingScans = <<>>
  /\ pushTipToRobot
  /\ cycle.returned
  /\ cycle.confidence # NoneConf
  /\ pushed = <<>>

\* C33 (at most one observer per callback): at any time each plane's
\* callback is registered at most once, and while tracking is off after a
\* stop no callback is registered.
C33_OneObserver ==
  \A p \in Planes :
    /\ fnResult.vtk[p] <= 1
    /\ ~fnResult.on => fnResult.vtk[p] = 0

\* a second session whose order names a plane twice has registered it
C33_Witness ==
  /\ fnResult.session = 2
  /\ fnResult.on
  /\ fnResult.pending = <<>>
  /\ fnArgs.second.order = <<"AX", "XX", "AX">>
  /\ fnArgs.first.use[3]
  /\ fnResult.vtk["AX"] = 1

\* C34 (initial scans follow the order): a session start resets the
\* tracking state before any scan; while order entries are pending, each
\* step consumes the first one, running one completed cycle of that plane
\* and then registering its observer when the entry names an active plane,
\* and doing nothing otherwise; an observer is never registered but by the
\* initial cycle of its own plane.
C34_InitialScansInOrder ==
  [][/\ sessions' = sessions + 1 =>
          /\ img_counter' = 0
          /\ tipTracked' = Origin
          /\ tipSegm' = Origin
          /\ smooth' = NoSmoothing
          /\ \A i \in 1..3 : prevDetection'[i] # "True"
          /\ cycle' = NoCycle
          /\ UNCHANGED observers
     /\ pendingScans # <<>> =>
          /\ pendingScans' = Tail(pendingScans)
          /\ IF Head(pendingScans) \in Planes
             THEN IF useScanPlanes[PlaneIdx(Head(pendingScans))]
                  THEN /\ img_counter' = img_counter + 1
                       /\ cycle'.plane = Head(pendingScans)
                       /\ cycle'.returned
                       /\ observers' = observers \cup {Head(pendingScans)}
                  ELSE UNCHANGED <<img_counter, cycle, observers, tipTracked>>
             ELSE UNCHANGED <<img_counter, cycle, observers, tipTracked>>
     /\ \A p \in Planes :
          (p \notin observers /\ p \in observers') =>
            /\ Head(pendingScans) = p
            /\ img_counter' = img_counter + 1
            /\ cycle'.plane = p
            /\ cycle'.returned]_vars

\* the order "SAG,COR" was followed: the second initial cycle was coronal
C34_Witness ==
  /\ isTrackingOn
  /\ pendingScans = <<>>
  /\ img_counter = 2
  /\ cycle.plane = "COR"
  /\ cycle.returned
  /\ observers = {"COR", "SAG"}

\* C35 (every active plane is tracked): once a session has run its initial
\* scans, the image callback of every plane of the active set is
\* registered, so that an image arriving for the plane starts a cycle.
C35_ActivePlanesObserved ==
  (isTrackingOn /\ pendingScans = <<>>) =>
    \A p \in Planes : useScanPlanes[PlaneIdx(p)] => p \in observers

\* C36 (order of effects in a confident cycle): with scan-plane updating
\* on, the pushes of a confident cycle are the updated planes in the order
\* of their updates, each carrying the pose the plane has after the cycle,
\* followed by the tracked tip and then the confidence when the tip is
\* pushed; and the coordinates written to each updated plane are those of
\* the tracked tip this cycle left.
C36_EffectOrder ==
  [][(/\ img_counter' = img_counter + 1
      /\ cycle'.returned
      /\ cycle'.confidence # NoneConf
      /\ cycle'.confidence >= confidenceLevel
      /\ updateScanPlaneOn) =>
       LET targets == FanOut(cycle'.plane, useScanPlanes)
           n == Len(targets)
       IN  /\ Len(pushed') = n + (IF pushTipToRobot THEN 2 ELSE 0)
           /\ \A i \in 1..n :
                /\ pushed'[i] = [node |-> targets[i], data |-> scanPlanes'[targets[i]].trans]
                /\ IF centerScanAtTip
                   THEN scanPlanes'[targets[i]].trans = tipTracked'
                   ELSE scanPlanes'[targets[i]].trans[ThroughAxis(targets[i])]
                          = tipTracked'[ThroughAxis(targets[i])]
           /\ pushTipToRobot =>
                /\ pushed'[n + 1] = [node |-> "CurrentTrackedTip", data |-> tipTracked']
                /\ pushed'[n + 2] = [node |-> "CurrentTipConfidence",
                                     data |-> <<R(cycle'.confidence)>>]]_vars

\* a confident cycle with smoothing moved the tracked tip, updated two
\* planes and pushed them, the tip and the confidence
C36_Witness ==
  /\ smoothingEnabled
  /\ updateScanPlaneOn
  /\ cycle.returned
  /\ cycle.confidence >= confidenceLevel
  /\ Len(reports) >= 2
  /\ reports[Len(reports)].tracked = tipTracked
  /\ reports[Len(reports) - 1].tracked # tipTracked
  /\ tipTracked # cycle.centerRAS
  /\ Len(pushed) = 4
  /\ pushed[3].node = "CurrentTrackedTip"

\* C37 (shaft extremity only at low confidence): when step 6 takes the
\* extremity of the shaft skeleton as the point, the confidence is Low or
\* Medium Low; so a result that passes the gate of step 8 at a threshold of
\* Medium or higher carries the centroid of the selected tip.
C37_ShaftTipLowOnly ==
  fnResult # None =>
    /\ fnResult.tip_center = fnArgs.det.shaft_tip => fnResult.confidence \in {1, 2}
    /\ \A level \in 3..5 :
         (fnResult.confidence # NoneConf /\ TipGate(fnResult.confidence, level))
           => fnResult.tip_center = fnArgs.det.tip_center

\* a small tip apart from a big shaft: the extremity is taken, at Medium Low
C37_Witness ==
  /\ fnResult # None
  /\ fnArgs.det.tip
  /\ fnArgs.det.shaft
  /\ ~fnArgs.det.connected
  /\ fnResult.tip_center = fnArgs.det.shaft_tip
  /\ fnResult.confidence = 2

\* what step 6 receives from step 5 (the shaft extremity plays no part in
\* the confidence)
SelectedDetection(sel) ==
  [tip |-> sel.tip_label # NoLabel, shaft |-> sel.shaft_label # NoLabel,
   tip_size |-> sel.tip_size, shaft_size |-> sel.shaft_size,
   connected |-> sel.connected, tip_center |-> sel.tip_center, shaft_tip |-> Origin]

\* the selection holds the second component of a list instead of the first
AlternateTip(args, sel) ==
  args.tip_dict # <<>> /\ sel.tip_label # args.tip_dict[1].label
AlternateShaft(args, sel) ==
  args.shaft_dict # <<>> /\ sel.shaft_label # args.shaft_dict[1].label

\* C38 (fallback yields high confidence): when step 5 selects an alternate
\* tip or shaft, the selected pair is connected and step 6 rates it Medium
\* High or High, and High when the tip is the alternate one.
C38_FallbackConfidence ==
  fnResult # None =>
    LET conf == getConfidence(SelectedDetection(fnResult), fnArgs.minTip,
                              fnArgs.minShaft).confidence
    IN  /\ (AlternateTip(fnArgs, fnResult) \/ AlternateShaft(fnArgs, fnResult)) =>
             fnResult.connected /\ conf >= 4
        /\ AlternateTip(fnArgs, fnResult) => conf = 5

\* a small first tip touches only the second shaft: Medium High
C38_Witness ==
  /\ fnResult # None
  /\ AlternateShaft(fnArgs, fnResult)
  /\ ~AlternateTip(fnArgs, fnResult)
  /\ fnResult.tip_size < fnArgs.minTip
  /\ fnResult.connected
  /\ getConfidence(SelectedDetection(fnResult), fnArgs.minTip, fnArgs.minShaft).confidence = 4

\* C39 (initializeScanPlane, slice only): called with sliceOnly = True, the
\* function leaves the plane with its through-plane translation coordinate
\* set to the given value and its other two translation coordinates as they
\* were before the call.
C39_SliceOnlyKeepsOthers ==
  (fnResult # None /\ fnArgs.sliceOnly) =>
    \A a \in 1..3 :
      fnResult.trans[a] = IF a = ThroughAxis(fnArgs.plane)
                          THEN fnArgs.coordinates[a]
                          ELSE fnArgs.prev[a]

\* C40 (timestamp lists aligned): after every completed cycle the five
\* lists of the tracker have the same length.
C40_ListsAligned ==
  \A a \in StepNames, b \in StepNames : fnResult.timestamps[a] = fnResult.timestamps[b]

====
